---- MODULE Spec2Model ----
(***************************************************************************)
(* A model of PLASMA's tile Aasen factorization plasma_pzhetrf_aa          *)
(* (src/compute/pzhetrf_aa.c).                                             *)
(*                                                                         *)
(* Three specifications share the parameters mt, tot, max_threads and k:   *)
(*                                                                         *)
(*   SpecRed  the numerical content of the two accumulate / tournament-    *)
(*            reduce / add stages of one column k (diagonal assembly,      *)
(*            lines 109-173, and column update, lines 238-321).  Tiles     *)
(*            hold bags of symbolic terms, so "each term counted exactly   *)
(*            once" is a statement about multiplicities.  The kernels run  *)
(*            in program order, the order the dataflow runtime must be     *)
(*            equivalent to.                                               *)
(*                                                                         *)
(*   Spec     the column-stage orchestrator with its task pool, joins,     *)
(*            panel ranks, shared status and pivot vector; SpecLive is     *)
(*            Spec with progress of the orchestrator and the runtime.      *)
(*                                                                         *)
(*   SpecStage  the first half of one column iteration of the              *)
(*            orchestrator, for any column k.                              *)
(*                                                                         *)
(* A fourth, SpecDrv, models the drivers PLASMA_zposv, plasma_omp_zposv    *)
(* (src/compute/zposv.c), PLASMA_ztrmm and plasma_omp_ztrmm                *)
(* (src/compute/ztrmm.c).  A fifth, SpecTree, models the operation-tree    *)
(* planners of src/control/plasma_rh_tree.c; SpecTreeLive is SpecTree with *)
(* progress of the planner.                                                *)
(***************************************************************************)
EXTENDS Integers, Sequences, FiniteSets, Bags, TLC

VARIABLES
    mt,            \* A.mt (= A.nt, A is square with square tiles)
    tot,           \* number of reduction slots, W.mt - 3*A.mt
    max_threads,   \* plasma->max_threads
    k,             \* column of the k loop
    stage,         \* SpecRed: which stage of column k runs: "diag" | "col"
    rpc,           \* SpecRed: position in the stage
    ri,            \* SpecRed: outer loop index (m, n, or schedule position)
    rj,            \* SpecRed: inner loop index (tile-row m)
    Wval,          \* SpecRed: contents of the reduction slots W3(j) = W4(j)
    redIn,         \* SpecRed: the slots as they were when the tournament began
    Tkk,           \* SpecRed: contents of T(k,k): [lo, up, mirrored]
    Lcol,          \* SpecRed: contents of L(m,k+1), m in k+1..mt-1
    uplo,          \* Spec: "Lower" | "Upper"
    Am,            \* Spec: A.m = A.n, the number of rows of A
    seqStatus,     \* Spec: sequence->status
    reqStatus,     \* Spec: request->status
    entryStatus,   \* Spec: sequence->status when the routine was entered
    pc,            \* Spec: position of the orchestrating thread
    tasks,         \* Spec: the emitted tasks not yet complete, in emission order
    nEmitted,      \* Spec: number of tasks emitted so far
    ranks,         \* Spec: the panel ranks (the nested tasks of line 346)
    ver,           \* Spec: per tile, the number of writes it has received
    wcol,          \* Spec: per tile, the column of the last task that wrote it
    ipiv,          \* Spec: the pivot vector, entries 0..A.m-1
    ipiv0,         \* Spec: the pivot vector as the caller passed it
    pivDone,       \* Spec: pivot blocks 1..pivDone are populated and offset
    failLog,       \* Spec: the calls of plasma_request_fail: [col, info, code]
    full,          \* Spec: the T(k,k) whose upper triangle mirrors the lower
    joins,         \* Spec: the taskwaits since the iteration began, by line
    routine,       \* SpecDrv: the entry point the caller invokes
    arg,           \* SpecDrv: its arguments and the outcomes of what it calls
    dpc,           \* SpecDrv: position in the routine
    ret,           \* SpecDrv: the value PLASMA_zposv returns
    userA,         \* SpecDrv: the caller's array A (LAPACK layout)
    userB,         \* SpecDrv: the caller's array B (LAPACK layout)
    descA,         \* SpecDrv: the tile matrix A
    descB,         \* SpecDrv: the tile matrix B
    dseq,          \* SpecDrv: sequence->status
    dreq,          \* SpecDrv: request->status
    made,          \* SpecDrv: the descriptors and the sequence that exist
    called,        \* SpecDrv: the functions called so far, in order
    planner,       \* SpecTree: the planner called: "flat" | "plasmatree" | "greedy"
    nt,            \* SpecTree: the planner's argument nt (mt is its argument mt)
    tpc,           \* SpecTree: position in the planner
    nops,          \* SpecTree: the number of entries allocated for the list
    iops,          \* SpecTree: the number of operations inserted so far
    operations,    \* SpecTree: the entries inserted: [kernel, col, row, piv]
    NT,            \* SpecTree: greedy, tiles triangularized per column
    NZ,            \* SpecTree: greedy, tiles eliminated per column
    tj             \* SpecTree: greedy, the column j of the sweep

paramVars == <<mt, tot, max_threads, k>>
redVars == <<stage, rpc, ri, rj, Wval, redIn, Tkk, Lcol>>
factVars == <<uplo, Am, seqStatus, reqStatus, entryStatus, pc, tasks, nEmitted,
              ranks, ver, wcol, ipiv, ipiv0, pivDone, failLog, full, joins>>
drvVars == <<routine, arg, dpc, ret, userA, userB, descA, descB, dseq, dreq,
             made, called>>
treeVars == <<planner, nt, tpc, nops, iops, operations, NT, NZ, tj>>
orchVars == <<factVars, drvVars, treeVars>>
vars == <<paramVars, redVars, orchVars>>

(***************************************************************************)
(* Bounds of the model.                                                    *)
(***************************************************************************)
RedMaxMt == 7
RedMaxTot == 6
RedMaxThreads == 4
OrchMaxMt == 3
OrchMaxTot == 2
OrchMaxThreads == 4
\* the tile size A.mb = A.nb
MB == 2
\* plasma->num_panel_threads
NumRanks == 2

PlasmaSuccess == 0
\* the status of a sequence that an earlier operation has failed
PriorFailure == -1

(***************************************************************************)
(* Symbolic tile values.  A tile value is a bag of terms; adding tiles is  *)
(* bag union, and a term appearing twice has multiplicity 2.               *)
(***************************************************************************)
One(t) == SetToBag({t})

\* whatever a reduction slot held when the stage began (an earlier column's
\* partial sums, or memory the caller never initialised)
Stale(j) == <<"stale", j, 0>>
\* the product -L(kk,m) * H(m,kk) of the diagonal assembly
DTerm(kk, m) == <<"LH", kk, m>>
\* the product -L(m,n) * H(n,k) of the column update
CTerm(m, n) == <<"LHc", m, n>>
\* the lower triangle of A(kk,kk)
ALow(kk) == <<"Alow", kk, kk>>
\* what T(kk,kk) held on entry
TPrior(kk) == <<"T0", kk, kk>>
\* what L(m,kk+1) held before the column update
LPrior(m, kk) == <<"L0", m, kk + 1>>

RECURSIVE BagSum(_, _, _)
\* f[from] (+) ... (+) f[to]
BagSum(f, from, to) ==
    IF from > to THEN EmptyBag ELSE f[from] (+) BagSum(f, from + 1, to)

(***************************************************************************)
(* Helpers of the routine.                                                 *)
(***************************************************************************)
imin(a, b) == IF a < b THEN a ELSE b

RECURSIVE CeilLog2From(_, _, _)
CeilLog2From(n, r, p) == IF p >= n THEN r ELSE CeilLog2From(n, r + 1, 2 * p)

\* ceil(log10((double)n)/log10(2.0)) for n >= 1: the least r with 2^r >= n
\* (the floating-point quotient is exact enough for every n the model uses;
\* an overestimate would only add rounds with no bracket).
CeilLog2(n) == CeilLog2From(n, 0, 1)

\* num_rounds.  For num_players = 0 the C expression is ceil(-inf) converted
\* to int, which is undefined; whatever it yields, num_brackets = 0/2 = 0 in
\* every round, so no addition is ever emitted: modelled as no round.
NumRounds(P) == IF P <= 0 THEN 0 ELSE CeilLog2(P)

NextPlayersFloor(p) == p \div 2

\* num_players = ceil(((double)num_players)/2.0)
NextPlayers(p) == (p + 1) \div 2

RECURSIVE TourRoundsFullSkip(_, _, _)
TourRoundsFullSkip(rounds, players, skip) ==
    IF rounds <= 0 THEN <<>>
    ELSE [b \in 1..(players \div 2) |->
             <<skip * (b - 1), skip * (b - 1) + skip>>]
         \o TourRoundsFullSkip(rounds - 1, NextPlayers(players), 2 * skip)

RECURSIVE TourRounds(_, _, _)
\* the (m1, m2) pairs of the remaining rounds, in program order:
\* slot m1 += slot m2
TourRounds(rounds, players, skip) ==
    IF rounds <= 0 THEN <<>>
    ELSE [b \in 1..(players \div 2) |->
             <<skip * (b - 1), skip * (b - 1) + skip \div 2>>]
         \o TourRounds(rounds - 1, NextPlayers(players), 2 * skip)

TourSchedule(P) == TourRounds(NumRounds(P), P, 2)

\* C = alpha*A*B + beta*C with alpha*A*B the symbolic term: beta = 0
\* overwrites C without reading it
Gemm(C, beta, term) == IF beta = 0 THEN One(term) ELSE C (+) One(term)

\* diagonal assembly: num = imin(tot, k-1)
DiagNum(t, kk) == imin(t, kk - 1)

\* id = (m-1) % num
DiagSlot(m, num) == (m - 1) % num

DiagBetaOffByOne(m, num) == IF m < num THEN 0 ELSE 1

\* beta = zzero if m < num+1, zone otherwise
DiagBeta(m, num) == IF m < num + 1 THEN 0 ELSE 1

\* the thread heuristic: A.mt-k < plasma->max_threads
UseWorkspace(m_t, kk, threads) == m_t - kk < threads

\* column update: num = imin(k, tot/(A.mt-k-1))
ColNum(t, m_t, kk) == imin(kk, t \div (m_t - kk - 1))

\* (n-1) % num.  With num = 0 the remainder is undefined behaviour: a build
\* either traps (action RedTrap) or, where integer division by zero yields
\* 0, computes a - 0*b = a.
CRem(a, b) == IF b # 0 THEN a % b ELSE a

\* id = (m-k-1)*num+(n-1)%num
ColSlot(m, n, kk, num) == (m - kk - 1) * num + CRem(n - 1, num)

\* beta = zzero if n < num+1, zone otherwise
ColBeta(n, num) == IF n < num + 1 THEN 0 ELSE 1

\* the drivers' variables while the factorization is examined
DrvIdle ==
    /\ routine = "none"
    /\ arg = <<>>
    /\ dpc = "idle"
    /\ ret = 0
    /\ userA = <<>>
    /\ userB = <<>>
    /\ descA = <<>>
    /\ descB = <<>>
    /\ dseq = 0
    /\ dreq = 0
    /\ made = {}
    /\ called = <<>>

\* the planners' variables while another specification runs
TreeIdle ==
    /\ planner = "none"
    /\ nt = 0
    /\ tpc = "idle"
    /\ nops = 0
    /\ iops = 0
    /\ operations = <<>>
    /\ NT = <<>>
    /\ NZ = <<>>
    /\ tj = 0

\* the factorization's variables while another specification runs
FactIdle ==
    /\ uplo = "Lower"
    /\ Am = mt * MB
    /\ seqStatus = PlasmaSuccess
    /\ reqStatus = PlasmaSuccess
    /\ entryStatus = PlasmaSuccess
    /\ pc = "stage"
    /\ tasks = <<>>
    /\ nEmitted = 0
    /\ ranks = <<>>
    /\ ver = <<>>
    /\ wcol = <<>>
    /\ ipiv = <<>>
    /\ ipiv0 = <<>>
    /\ pivDone = 0
    /\ failLog = {}
    /\ full = {}
    /\ joins = <<>>

\* the orchestrator's and the drivers' variables while SpecRed runs
OrchIdle == FactIdle /\ DrvIdle /\ TreeIdle

(***************************************************************************)
(* SpecRed: one stage of column k, kernel by kernel.                       *)
(* The sequence status is PlasmaSuccess throughout (every kernel does its  *)
(* work).  k, mt, tot and max_threads are inputs: the column loop reaches  *)
(* every k in 0..mt-1, and the slots hold whatever earlier columns left.   *)
(***************************************************************************)
InitRed ==
    /\ mt \in 1..RedMaxMt
    /\ tot \in 1..RedMaxTot
    /\ max_threads \in 1..RedMaxThreads
    /\ k \in 0..(mt - 1)
    /\ stage \in {"diag", "col"}
    /\ stage = "col" => k + 1 < mt
    /\ Wval = [j \in 0..(tot - 1) |-> One(Stale(j))]
    /\ redIn = Wval
    /\ Tkk = [lo |-> One(TPrior(k)), up |-> One(TPrior(k)), mirrored |-> FALSE]
    /\ Lcol = [m \in (k + 1)..(mt - 1) |-> One(LPrior(m, k))]
    /\ ri = 1
    /\ rj = k + 1
    /\ rpc = IF stage = "diag"
             THEN (IF k > 1 THEN "d_gemm" ELSE "d_lacpy")
             ELSE IF UseWorkspace(mt, k, max_threads)
                  THEN (IF k >= 1 THEN "c_gemm" ELSE "c_final")
                  ELSE (IF k >= 1 THEN "c_direct" ELSE "done")
    /\ OrchIdle

\* lines 113-128: one core_omp_zgemm of the diagonal assembly
RedDiagGemm ==
    /\ rpc = "d_gemm"
    /\ LET num == DiagNum(tot, k)
           id == DiagSlot(ri, num)
       IN /\ Wval' = [Wval EXCEPT ![id] = Gemm(@, DiagBeta(ri, num), DTerm(k, ri))]
          /\ IF ri + 1 < k
             THEN /\ ri' = ri + 1
                  /\ UNCHANGED <<rpc, redIn>>
             ELSE /\ ri' = 1
                  /\ redIn' = Wval'
                  /\ rpc' = IF TourSchedule(num) = <<>> THEN "d_lacpy" ELSE "d_tour"
    /\ UNCHANGED <<orchVars, paramVars, stage, rj, Tkk, Lcol>>

\* lines 133-148: one core_omp_zgeadd of the tournament over W3
RedDiagAdd ==
    /\ rpc = "d_tour"
    /\ LET sched == TourSchedule(DiagNum(tot, k))
           m1 == sched[ri][1]
           m2 == sched[ri][2]
       IN /\ Wval' = [Wval EXCEPT ![m1] = Wval[m2] (+) @]
          /\ IF ri < Len(sched)
             THEN ri' = ri + 1 /\ rpc' = rpc
             ELSE ri' = 1 /\ rpc' = "d_lacpy"
    /\ UNCHANGED <<orchVars, paramVars, stage, rj, redIn, Tkk, Lcol>>

\* lines 149-154 and 161-166: core_omp_zlacpy(PlasmaLower, A(k,k) -> T(k,k))
\* replaces the lower triangle and leaves the upper one as it was
RedDiagLacpy ==
    /\ rpc = "d_lacpy"
    /\ Tkk' = [Tkk EXCEPT !.lo = One(ALow(k))]
    /\ rpc' = IF k > 1 THEN "d_geadd" ELSE "d_mirror"
    /\ UNCHANGED <<orchVars, paramVars, stage, ri, rj, Wval, redIn, Lcol>>

\* lines 155-159: core_omp_zgeadd(W3(0) -> T(k,k)), the whole tile
RedDiagGeadd ==
    /\ rpc = "d_geadd"
    /\ Tkk' = [Tkk EXCEPT !.lo = Wval[0] (+) @, !.up = Wval[0] (+) @]
    /\ rpc' = "done"
    /\ UNCHANGED <<orchVars, paramVars, stage, ri, rj, Wval, redIn, Lcol>>

\* lines 167-172 (k <= 1): the upper triangle becomes the conjugate
\* transpose of the lower one
RedDiagMirror ==
    /\ rpc = "d_mirror"
    /\ Tkk' = [Tkk EXCEPT !.up = Tkk.lo, !.mirrored = TRUE]
    /\ rpc' = "done"
    /\ UNCHANGED <<orchVars, paramVars, stage, ri, rj, Wval, redIn, Lcol>>

\* the position after (n, m) = (ri, rj) in "for n = 1..k, for m = k+1..mt-1"
ColLoopLast == ri = k /\ rj = mt - 1
ColLoopNextN == IF rj = mt - 1 THEN ri + 1 ELSE ri
ColLoopNextM == IF rj = mt - 1 THEN k + 1 ELSE rj + 1

\* lines 240-270: one core_omp_zgemm of the workspace-parallel column update
RedColGemm ==
    /\ rpc = "c_gemm"
    /\ LET num == ColNum(tot, mt, k)
           id == ColSlot(rj, ri, k, num)
       IN /\ id \in DOMAIN Wval
          /\ Wval' = [Wval EXCEPT ![id] = Gemm(@, ColBeta(ri, num), CTerm(rj, ri))]
          /\ IF ColLoopLast
             THEN /\ ri' = 1
                  /\ rj' = k + 1
                  /\ redIn' = Wval'
                  /\ rpc' = IF TourSchedule(num) = <<>> THEN "c_final" ELSE "c_tour"
             ELSE /\ ri' = ColLoopNextN
                  /\ rj' = ColLoopNextM
                  /\ UNCHANGED <<rpc, redIn>>
    /\ UNCHANGED <<orchVars, paramVars, stage, Tkk, Lcol>>

\* line 246 with num = 0: the remainder (n-1) % 0 traps, or the slot index
\* it yields lies outside the pool
RedTrap ==
    /\ rpc = "c_gemm"
    /\ ColNum(tot, mt, k) = 0
    /\ rpc' = "trap"
    /\ UNCHANGED <<orchVars, paramVars, stage, ri, rj, Wval, redIn, Tkk, Lcol>>

\* lines 275-294: one core_omp_zgeadd of the tournament over W4, tile-row rj
RedColAdd ==
    /\ rpc = "c_tour"
    /\ LET num == ColNum(tot, mt, k)
           sched == TourSchedule(num)
           base == (rj - k - 1) * num
           m1 == base + sched[ri][1]
           m2 == base + sched[ri][2]
       IN /\ Wval' = [Wval EXCEPT ![m1] = Wval[m2] (+) @]
          /\ IF rj < mt - 1
             THEN rj' = rj + 1 /\ UNCHANGED <<ri, rpc>>
             ELSE /\ rj' = k + 1
                  /\ IF ri < Len(sched)
                     THEN ri' = ri + 1 /\ rpc' = rpc
                     ELSE ri' = 1 /\ rpc' = "c_final"
    /\ UNCHANGED <<orchVars, paramVars, stage, redIn, Tkk, Lcol>>

\* lines 297-305: core_omp_zgeadd(W4((m-k-1)*num) -> L(m,k+1))
RedColFinal ==
    /\ rpc = "c_final"
    /\ LET num == ColNum(tot, mt, k)
       IN Lcol' = [Lcol EXCEPT ![rj] = Wval[(rj - k - 1) * num] (+) @]
    /\ IF rj < mt - 1
       THEN rj' = rj + 1 /\ rpc' = rpc
       ELSE rj' = k + 1 /\ rpc' = "done"
    /\ UNCHANGED <<orchVars, paramVars, stage, ri, Wval, redIn, Tkk>>

\* lines 307-320: one core_omp_zgemm of the direct column update
RedColDirect ==
    /\ rpc = "c_direct"
    /\ Lcol' = [Lcol EXCEPT ![rj] = Gemm(@, 1, CTerm(rj, ri))]
    /\ IF ColLoopLast
       THEN ri' = 1 /\ rj' = k + 1 /\ rpc' = "done"
       ELSE ri' = ColLoopNextN /\ rj' = ColLoopNextM /\ rpc' = rpc
    /\ UNCHANGED <<orchVars, paramVars, stage, Wval, redIn, Tkk>>

NextRed ==
    \/ RedDiagGemm
    \/ RedDiagAdd
    \/ RedDiagLacpy
    \/ RedDiagGeadd
    \/ RedDiagMirror
    \/ RedColGemm
    \/ RedTrap
    \/ RedColAdd
    \/ RedColFinal
    \/ RedColDirect

SpecRed == InitRed /\ [][NextRed]_vars

(***************************************************************************)
(* Claims about the reduction stages (checked under SpecRed).              *)
(***************************************************************************)

\* the tournament over W3 of the diagonal assembly has run to its end
DiagTourOver == stage = "diag" /\ k > 1 /\ rpc \in {"d_lacpy", "d_geadd", "done"}

\* the tournament over W4 of the column update has run to its end, with at
\* least one slot per tile-row
ColTourOver ==
    /\ stage = "col"
    /\ UseWorkspace(mt, k, max_threads)
    /\ ColNum(tot, mt, k) >= 1
    /\ rpc \in {"c_final", "done"}

\* C1: tournament reduction, both instances: for every slot count P >= 1,
\* once all rounds have run, slot 0 of the instance (W3(0); for tile-row m
\* W4((m-k-1)*num)) holds the sum of the P values the slots held when the
\* tournament began, each with multiplicity one, whatever the parity of the
\* number of players in any round.
C1_TournamentSum ==
    /\ DiagTourOver =>
           Wval[0] = BagSum(redIn, 0, imin(tot, k - 1) - 1)
    /\ ColTourOver =>
           LET P == imin(k, tot \div (mt - k - 1))
           IN \A m \in (k + 1)..(mt - 1) :
                  Wval[(m - k - 1) * P] =
                      BagSum(redIn, (m - k - 1) * P, (m - k - 1) * P + P - 1)

\* five players: an odd number of players in round 1 (5) and in round 2 (3)
C1_Witness == stage = "diag" /\ rpc = "done" /\ imin(tot, k - 1) = 5

\* the terms -L(kk,m)*H(m,kk), m in 1..upto, that belong to slot id
DiagTermsOfSlot(kk, id, num, upto) ==
    SetToBag({DTerm(kk, m) : m \in {x \in 1..upto : (x - 1) % num = id}})

\* C2: diagonal assembly, k >= 2, tot >= 1, num = min(tot, k-1): every term
\* -L(k,m)*H(m,k) lands in exactly the slot (m-1) mod num; the first write
\* to each of the num slots overwrites it (nothing an earlier column left
\* survives); after the tournament and the final add T(k,k) is the lower
\* copy of A(k,k) (lower triangle from A, upper triangle as it was) plus
\* each of the k-1 terms exactly once.
C2_DiagAssembly ==
    (stage = "diag" /\ k >= 2) =>
        LET num == imin(tot, k - 1)
            all == SetToBag({DTerm(k, m) : m \in 1..(k - 1)})
        IN /\ rpc = "d_gemm" =>
                  \A id \in 0..(num - 1) :
                      ri > id + 1 => Wval[id] = DiagTermsOfSlot(k, id, num, ri - 1)
           /\ rpc # "d_gemm" =>
                  \A id \in 0..(num - 1) :
                      redIn[id] = DiagTermsOfSlot(k, id, num, k - 1)
           /\ rpc = "done" =>
                  /\ Tkk.lo = One(ALow(k)) (+) all
                  /\ Tkk.up = One(TPrior(k)) (+) all

\* two slots shared by three terms: slot 0 is overwritten, then accumulated
C2_Witness == stage = "diag" /\ rpc = "done" /\ k = 4 /\ tot = 2

\* C3: column update, k+1 < nt: after the stage, whichever strategy the
\* thread heuristic selected, every L(m,k+1), m in k+1..mt-1, is its prior
\* value plus each term -L(m,n)*H(n,k), n in 1..k, exactly once.
C3_ColumnUpdate ==
    (stage = "col" /\ rpc = "done") =>
        \A m \in (k + 1)..(mt - 1) :
            Lcol[m] = One(LPrior(m, k)) (+) SetToBag({CTerm(m, n) : n \in 1..k})

(***************************************************************************)
(* Spec: the column-stage orchestrator.                                    *)
(*                                                                         *)
(* Tiles are named, not valued: ver counts the writes a tile has received. *)
(* A task names the tiles it reads (rd) and writes (wr) and the regions    *)
(* its depend clauses declare (din, dout).  The runtime starts a task once *)
(* no earlier incomplete sibling has a conflicting declared region.        *)
(***************************************************************************)
\* #define A(m, n), T(m, n), L(m, n), W(j), W2(j), W3(j), W4(j), H(m, n)
ATile(i, j) == <<"A", i, j>>
TTile(i, j) == <<"T", i, j>>
LTile(m, nn) == ATile(m, nn - 1)
WPool(j) == <<"W", j, 0>>
WTile(j) == WPool(j)
W2TileAtZero(j) == WPool(j)
W2Tile(j) == WPool(j + mt)
W3Tile(j) == WPool(j + 3 * mt)
W4Tile(j) == WPool(j + 3 * mt)
HTile(m, nn) == W2Tile(m)
\* the entries of ipiv that belong to tile-row b
PivBlock(b) == <<"ipiv", b, 0>>

AllTiles ==
    {ATile(i, j) : i \in 0..(mt - 1), j \in 0..(mt - 1)}
    \cup {TTile(i, j) : i \in 0..(mt - 1), j \in 0..(mt - 1)}
    \cup {WPool(j) : j \in 0..(3 * mt + tot - 1)}

\* plasma_tile_mview(A, kk): the rows of tile-row kk that belong to A
TileMView(kk) == IF kk = mt - 1 THEN Am - (mt - 1) * MB ELSE MB

RECURSIVE Flatten(_)
Flatten(ss) == IF ss = <<>> THEN <<>> ELSE Head(ss) \o Flatten(Tail(ss))

\* a core_omp_* kernel: a task that declares what it reads and writes
Kernel(kind, rd, wr) ==
    [col |-> k, kind |-> kind, rd |-> rd, wr |-> wr,
     din |-> rd, dout |-> wr, st |-> "pending"]

\* core_omp_zgemm(.., a, b, beta, c): c is read only when beta # 0
GemmTask(a, b, c, beta) ==
    [col |-> k, kind |-> "gemm",
     rd |-> {a, b} \cup (IF beta = 0 THEN {} ELSE {c}), wr |-> {c},
     din |-> {a, b}, dout |-> {c}, st |-> "pending"]

\* core_omp_zgeadd(.., a, .., b): b = a + b
GeaddTask(a, b) == Kernel("geadd", {a, b}, {b})
\* core_omp_zlacpy(.., a, b): b = a (one triangle)
LacpyTask(a, b) == Kernel("lacpy", {a}, {b})
\* core_omp_zhegst(1, PlasmaLower, .., t, l)
HegstTask(t, l) == Kernel("hegst", {t, l}, {t})
\* core_omp_zlaset(.., a)
LasetTask(a) == Kernel("laset", {}, {a})
\* core_omp_ztrsm(.., a, b): b = b * inv(a)
TrsmTask(a, b) == Kernel("trsm", {a, b}, {b})

\* lines 77-107
OffDiagTasks(kk) ==
    Flatten([m \in 1..(kk - 1) |->
        <<GemmTask(TTile(m, m), LTile(kk, m), HTile(m, kk), 0)>>
        \o (IF m > 1
            THEN <<GemmTask(TTile(m, m - 1), LTile(kk, m - 1), HTile(m, kk), 1)>>
            ELSE <<>>)
        \o <<GemmTask(TTile(m + 1, m), LTile(kk, m + 1), HTile(m, kk), 1)>>])

\* lines 111-166
DiagTasks(kk) ==
    IF kk > 1
    THEN LET num == DiagNum(tot, kk)
             sched == TourSchedule(num)
         IN [m \in 1..(kk - 1) |->
                 GemmTask(LTile(kk, m), HTile(m, kk),
                          W3Tile(DiagSlot(m, num)), DiagBeta(m, num))]
            \o [i \in 1..Len(sched) |->
                    GeaddTask(W3Tile(sched[i][2]), W3Tile(sched[i][1]))]
            \o <<LacpyTask(ATile(kk, kk), TTile(kk, kk)),
                 GeaddTask(W3Tile(0), TTile(kk, kk))>>
    ELSE <<LacpyTask(ATile(kk, kk), TTile(kk, kk))>>

CongTasksHegstFirst(kk) ==
    <<HegstTask(TTile(kk, kk), LTile(kk, kk))>>
    \o (IF kk > 1
        THEN <<GemmTask(LTile(kk, kk), TTile(kk, kk - 1), WTile(0), 0),
               GemmTask(WTile(0), LTile(kk, kk - 1), TTile(kk, kk), 1)>>
        ELSE <<>>)

\* lines 176-198 (k > 0)
CongTasks(kk) ==
    (IF kk > 1
     THEN <<GemmTask(LTile(kk, kk), TTile(kk, kk - 1), WTile(0), 0),
            GemmTask(WTile(0), LTile(kk, kk - 1), TTile(kk, kk), 1)>>
     ELSE <<>>)
    \o <<HegstTask(TTile(kk, kk), LTile(kk, kk))>>

\* lines 208-230
HkkTasks(kk) ==
    (IF kk > 1
     THEN <<GemmTask(TTile(kk, kk - 1), LTile(kk, kk - 1), HTile(kk, kk), 0)>>
     ELSE <<>>)
    \o (IF kk + 1 < mt /\ kk > 0
        THEN <<GemmTask(TTile(kk, kk), LTile(kk, kk), HTile(kk, kk),
                        IF kk > 1 THEN 1 ELSE 0)>>
        ELSE <<>>)

\* lines 238-321 (k+1 < nt)
ColTasks(kk) ==
    LET rows == mt - 1 - kk
    IN IF UseWorkspace(mt, kk, max_threads)
       THEN LET num == ColNum(tot, mt, kk)
                sched == TourSchedule(num)
            IN Flatten([nn \in 1..kk |-> [i \in 1..rows |->
                   GemmTask(LTile(kk + i, nn), HTile(nn, kk),
                            W4Tile(ColSlot(kk + i, nn, kk, num)),
                            ColBeta(nn, num))]])
               \o Flatten([r \in 1..Len(sched) |-> [i \in 1..rows |->
                      GeaddTask(W4Tile((i - 1) * num + sched[r][2]),
                                W4Tile((i - 1) * num + sched[r][1]))]])
               \o [i \in 1..rows |->
                      GeaddTask(W4Tile((i - 1) * num), LTile(kk + i, kk + 1))]
       ELSE Flatten([nn \in 1..kk |-> [i \in 1..rows |->
                GemmTask(LTile(kk + i, nn), HTile(nn, kk),
                         LTile(kk + i, kk + 1), 1)]])

\* #define IPIV(i) (ipiv + (i)*(A.mb)): the first entry of pivot block b
IPIVAtBlockBelow(b) == (b - 1) * MB

IPIV(b) == b * MB

\* int tempi = (k+1)*A.mb
tempi(kk) == (kk + 1) * MB

\* int tempm = A.m - tempi
tempm(kk) == Am - tempi(kk)

\* the pivots of the panel of loop column kk: imin(tempm, mvak)
PanelPivots(kk) == imin(tempm(kk), TileMView(kk))

\* the tiles of the panel view plasma_desc_view(A, tempi, tempj, tempm, mvak)
PanelTiles(kk) == {ATile(i, kk) : i \in (kk + 1)..(mt - 1)}

\* lines 339-362: the panel task; its depend clauses name a00, a20 and
\* ipiv[k*A.mb : mvak], which is pivot block k
PanelTask(kk) ==
    [col |-> k, kind |-> "panel",
     rd |-> PanelTiles(kk), wr |-> PanelTiles(kk) \cup {PivBlock(kk + 1)},
     din |-> {}, dout |-> {LTile(kk + 1, kk + 1), LTile(mt - 1, kk + 1), PivBlock(kk)},
     st |-> "pending"]

\* A.nb: the tiles are square, as plasma_desc_general_create makes them
NB == MB

\* lines 372-373: k1 and k2, the 1-based pivot range of the row swaps
RowSwapRange(kk) ==
    <<1 + (kk + 1) * NB, imin(tempm(kk), TileMView(kk)) + (kk + 1) * NB>>

\* line 411: the 1-based pivot range of core_omp_zlaswp_sym
SymSwapRange(kk) ==
    <<(kk + 1) * MB + 1, (kk + 1) * MB + imin(tempm(kk), TileMView(kk))>>

\* lines 369-384: the row swaps of tile-column n-1, n = 1..k
RowSwapTasks(kk) ==
    [nn \in 1..kk |->
        [col |-> k, kind |-> "laswp", range |-> RowSwapRange(kk),
         rd |-> {PivBlock(kk + 1)} \cup {ATile(i, nn - 1) : i \in (kk + 1)..(mt - 1)},
         wr |-> {ATile(i, nn - 1) : i \in (kk + 1)..(mt - 1)},
         din |-> {PivBlock(kk + 1)}, dout |-> {LTile(kk + 1, nn)},
         st |-> "pending"]]

\* the trailing submatrix, tile-rows and tile-columns > kk, lower triangle
TrailingTiles(kk) ==
    {ATile(p[1], p[2]) :
        p \in {q \in ((kk + 1)..(mt - 1)) \X ((kk + 1)..(mt - 1)) : q[2] <= q[1]}}

\* lines 410-412: core_omp_zlaswp_sym on the trailing submatrix
SymSwapTask(kk) ==
    [col |-> k, kind |-> "laswp_sym", range |-> SymSwapRange(kk),
     rd |-> {PivBlock(kk + 1)} \cup TrailingTiles(kk), wr |-> TrailingTiles(kk),
     din |-> {PivBlock(kk + 1)}, dout |-> {},
     st |-> "pending"]

BandTasksLasetFirst(kk) ==
    <<LasetTask(LTile(kk + 1, kk + 1)),
      LacpyTask(LTile(kk + 1, kk + 1), TTile(kk + 1, kk))>>
    \o (IF kk > 0
        THEN <<TrsmTask(LTile(kk, kk), TTile(kk + 1, kk))>>
        ELSE <<>>)

\* lines 437-464
BandTasks(kk) ==
    <<LacpyTask(LTile(kk + 1, kk + 1), TTile(kk + 1, kk)),
      LasetTask(LTile(kk + 1, kk + 1))>>
    \o (IF kk > 0
        THEN <<TrsmTask(LTile(kk, kk), TTile(kk + 1, kk))>>
        ELSE <<>>)

UpperTasksAasen(kk) == DiagTasks(kk)

\* lines 478-518: one iteration of the PlasmaUpper loop
UpperTasks(kk) ==
    <<Kernel("potrf", {ATile(kk, kk)}, {ATile(kk, kk)})>>
    \o [i \in 1..(mt - 1 - kk) |-> TrsmTask(ATile(kk, kk), ATile(kk, kk + i))]
    \o Flatten([i \in 1..(mt - 1 - kk) |->
           <<Kernel("herk", {ATile(kk, kk + i), ATile(kk + i, kk + i)},
                    {ATile(kk + i, kk + i)})>>
           \o [j \in 1..(i - 1) |->
                  GemmTask(ATile(kk, kk + j), ATile(kk, kk + i),
                           ATile(kk + j, kk + i), 1)]])

\* the variables of SpecRed while Spec runs
RedIdle ==
    /\ stage = "none"
    /\ rpc = "idle"
    /\ ri = 0
    /\ rj = 0
    /\ Wval = <<>>
    /\ redIn = <<>>
    /\ Tkk = <<>>
    /\ Lcol = <<>>

Init ==
    /\ mt \in 1..OrchMaxMt
    /\ tot \in 1..OrchMaxTot
    /\ max_threads \in 1..OrchMaxThreads
    /\ k = 0
    /\ uplo \in {"Lower", "Upper"}
    /\ Am \in ((mt - 1) * MB + 1)..(mt * MB)
    /\ entryStatus \in {PlasmaSuccess, PriorFailure}
    /\ seqStatus = entryStatus
    /\ reqStatus = PlasmaSuccess
    /\ pc = "entry"
    /\ tasks = <<>>
    /\ nEmitted = 0
    /\ ranks = [r \in 1..NumRanks |-> "idle"]
    /\ ver = [x \in AllTiles |-> 0]
    /\ wcol = [x \in AllTiles |-> -1]
    /\ ipiv0 = [i \in 0..(Am - 1) |-> i]
    /\ ipiv = ipiv0
    /\ pivDone = 0
    /\ failLog = {}
    /\ full = {}
    /\ joins = <<>>
    /\ RedIdle
    /\ DrvIdle
    /\ TreeIdle

\* what no action of Spec changes
Fixed == <<redVars, mt, tot, max_threads, uplo, Am, entryStatus, ipiv0, drvVars,
          treeVars>>

EntryFailedNever == FALSE

\* line 47: sequence->status != PlasmaSuccess
EntryFailed == seqStatus # PlasmaSuccess

\* lines 46-48 and the head of the k loop
Enter ==
    /\ pc = "entry"
    /\ pc' = IF EntryFailed THEN "done"
             ELSE IF uplo = "Lower" THEN "offdiag" ELSE "upper"
    /\ UNCHANGED <<Fixed, k, seqStatus, reqStatus, tasks, nEmitted, ranks, ver,
                   wcol, ipiv, pivDone, failLog, full, joins>>

\* the orchestrating thread creates the tasks ts and moves on
Emit(ts, next) ==
    /\ tasks' = tasks \o ts
    /\ nEmitted' = nEmitted + Len(ts)
    /\ pc' = next
    /\ UNCHANGED <<Fixed, seqStatus, reqStatus, ranks, ver, wcol, ipiv,
                   pivDone, failLog, full>>

\* the orchestrating thread writes the tiles ws itself and moves on; the
\* loops of lines 168-172 and 201-205 leave T(k,k) with its upper triangle
\* the conjugate transpose of its lower triangle
Inline(ws, next) ==
    /\ ver' = [x \in DOMAIN ver |-> IF x \in ws THEN ver[x] + 1 ELSE ver[x]]
    /\ full' = full \cup (ws \cap {TTile(k, k)})
    /\ pc' = next
    /\ UNCHANGED <<Fixed, seqStatus, reqStatus, tasks, nEmitted, ranks, wcol,
                   ipiv, pivDone, failLog>>

JoinSkipped == TRUE

\* #pragma omp taskwait: every task the orchestrator created is complete
Joined == tasks = <<>>

EndOfColumnJoinSkipped == TRUE

\* line 465: the taskwait that closes the column
EndOfColumnJoin == tasks = <<>>

MirrorTilesFirstColumn(kk) == {TTile(kk, 0)}

MirrorTilesNone(kk) == {}

\* "for i < j < mvak": the mirror loop of T(k,k) writes when mvak >= 2
MirrorTiles(kk) == IF TileMView(kk) >= 2 THEN {TTile(kk, kk)} ELSE {}

\* lines 77-107
EmitOffDiag ==
    /\ pc = "offdiag"
    /\ Emit(OffDiagTasks(k), "diag")
    /\ joins' = <<>>
    /\ UNCHANGED k

AfterDiagAlwaysJoin(kk) == "diag_join"

\* lines 111 and 160-167: only the k <= 1 branch ends in a taskwait
AfterDiag(kk) == IF kk > 1 THEN "cong" ELSE "diag_join"

\* lines 109-166
EmitDiag ==
    /\ pc = "diag"
    /\ Emit(DiagTasks(k), AfterDiag(k))
    /\ UNCHANGED <<k, joins>>

\* lines 167-172: taskwait, then the orchestrator mirrors T(k,k)
DiagJoinMirror ==
    /\ pc = "diag_join"
    /\ Joined
    /\ Inline(MirrorTiles(k), "cong")
    /\ joins' = Append(joins, "167")
    /\ UNCHANGED k

\* lines 175-198
EmitCong ==
    /\ pc = "cong"
    /\ IF k > 0
       THEN Emit(CongTasks(k), "cong_join")
       ELSE Emit(<<>>, "hkk")
    /\ UNCHANGED <<k, joins>>

\* lines 200-205: taskwait, then the orchestrator mirrors T(k,k)
CongJoinMirror ==
    /\ pc = "cong_join"
    /\ Joined
    /\ Inline(MirrorTiles(k), "hkk")
    /\ joins' = Append(joins, "200")
    /\ UNCHANGED k

\* lines 208-230, and the end of the iteration when k+1 = nt
EmitHkk ==
    /\ pc = "hkk"
    /\ IF k + 1 < mt
       THEN Emit(HkkTasks(k), "colupd") /\ UNCHANGED k
       ELSE Emit(HkkTasks(k), "done") /\ k' = k + 1
    /\ UNCHANGED joins

\* lines 238-321.  Where line 246 divides by zero (num = 0 with k >= 1,
\* see RedTrap) the run either ends here or goes on with the slot indices
\* CRem yields, provided they lie in the pool.
EmitColUpdate ==
    /\ pc = "colupd"
    /\ \A i \in 1..Len(ColTasks(k)) : ColTasks(k)[i].wr \subseteq AllTiles
    /\ Emit(ColTasks(k), "panel_join")
    /\ UNCHANGED <<k, joins>>

\* lines 338-362: taskwait, then the panel task is created
EmitPanel ==
    /\ pc = "panel_join"
    /\ Joined
    /\ Emit(<<PanelTask(k)>>, "offset")
    /\ joins' = Append(joins, "338")
    /\ UNCHANGED k

OffsetPivotMissing(v, kk) == v

\* line 365: IPIV(k+1)[i] += tempi
OffsetPivot(v, kk) == v + tempi(kk)

\* lines 363-366: taskwait, then the orchestrator offsets the panel's pivots
OffsetPivots ==
    /\ pc = "offset"
    /\ Joined
    /\ ipiv' = [i \in DOMAIN ipiv |->
                   IF i >= IPIV(k + 1) /\ i < IPIV(k + 1) + PanelPivots(k)
                   THEN OffsetPivot(ipiv[i], k) ELSE ipiv[i]]
    /\ pivDone' = k + 1
    /\ pc' = "swaps"
    /\ joins' = Append(joins, "363")
    /\ UNCHANGED <<Fixed, k, seqStatus, reqStatus, tasks, nEmitted, ranks, ver,
                   wcol, failLog, full>>

\* lines 369-384
EmitRowSwaps ==
    /\ pc = "swaps"
    /\ Emit(RowSwapTasks(k), "swaps_join")
    /\ UNCHANGED <<k, joins>>

\* lines 385-464: taskwait, then the symmetric swap and the band tasks
EmitSymBand ==
    /\ pc = "swaps_join"
    /\ Joined
    /\ Emit(<<SymSwapTask(k)>> \o BandTasks(k), "band_join")
    /\ joins' = Append(joins, "385")
    /\ UNCHANGED k

\* lines 465-472: taskwait, the orchestrator writes T(k,k+1), next column
BandJoinMirror ==
    /\ pc = "band_join"
    /\ EndOfColumnJoin
    /\ Inline({TTile(k, k + 1)}, "offdiag")
    /\ joins' = Append(joins, "465")
    /\ k' = k + 1

\* lines 478-518
EmitUpper ==
    /\ pc = "upper"
    /\ Emit(UpperTasks(k), IF k + 1 < mt THEN "upper" ELSE "done")
    /\ UNCHANGED joins
    /\ k' = k + 1

(***************************************************************************)
(* The runtime and the tasks.                                              *)
(***************************************************************************)
ConflictOutputsOnly(t1, t2) == t1.dout \cap t2.dout # {}

\* the later task t2 must wait for the earlier task t1
Conflict(t1, t2) ==
    \/ t1.dout \cap (t2.din \cup t2.dout) # {}
    \/ t1.din \cap t2.dout # {}

CanStart(i) ==
    /\ tasks[i].st = "pending"
    /\ \A j \in 1..(i - 1) : ~Conflict(tasks[j], tasks[i])

Remove(i) == SubSeq(tasks, 1, i - 1) \o SubSeq(tasks, i + 1, Len(tasks))

\* a kernel or row-swap task begins: it reads the status first (line 378,
\* and the same test inside every core_omp_* kernel)
StartTask ==
    \E i \in 1..Len(tasks) :
        /\ CanStart(i)
        /\ tasks[i].kind # "panel"
        /\ tasks' = [tasks EXCEPT ![i].st =
                        IF seqStatus = PlasmaSuccess THEN "run" ELSE "skip"]
        /\ UNCHANGED <<Fixed, k, seqStatus, reqStatus, pc, nEmitted, ranks, ver,
                       wcol, ipiv, pivDone, failLog, full, joins>>

\* a kernel or row-swap task ends: its writes are in place
FinishTask ==
    \E i \in 1..Len(tasks) :
        /\ tasks[i].st \in {"run", "skip"}
        /\ LET ws == IF tasks[i].st = "run" THEN tasks[i].wr ELSE {}
           IN /\ ver' = [x \in DOMAIN ver |->
                            IF x \in ws THEN ver[x] + 1 ELSE ver[x]]
              /\ wcol' = [x \in DOMAIN wcol |->
                             IF x \in ws THEN tasks[i].col ELSE wcol[x]]
              /\ full' = full \ ws
        /\ tasks' = Remove(i)
        /\ UNCHANGED <<Fixed, k, seqStatus, reqStatus, pc, nEmitted, ranks,
                       ipiv, pivDone, failLog, joins>>

SpawnFirstRankOnly ==
    IF seqStatus = PlasmaSuccess THEN [ranks EXCEPT ![1] = "spawned"] ELSE ranks

SpawnRanksUnchecked == [r \in 1..NumRanks |-> "spawned"]

\* lines 344-359: the status is tested once, outside the loop over the ranks
SpawnRanks ==
    IF seqStatus = PlasmaSuccess
    THEN [r \in 1..NumRanks |-> "spawned"]
    ELSE ranks

\* lines 343-360: the panel task begins and, if the status is success,
\* creates one nested task per rank
StartPanel ==
    \E i \in 1..Len(tasks) :
        /\ CanStart(i)
        /\ tasks[i].kind = "panel"
        /\ tasks' = [tasks EXCEPT ![i].st = "wait"]
        /\ ranks' = SpawnRanks
        /\ UNCHANGED <<Fixed, k, seqStatus, reqStatus, pc, nEmitted, ver, wcol,
                       ipiv, pivDone, failLog, full, joins>>

\* core_zgetrf's pivot for row i of a panel of rows rows, 1-based and
\* relative to the panel: the row itself (no interchange) or, when far, the
\* last row of the panel
LocalPivot(i, rows, far) == IF far THEN rows ELSE i + 1

\* lines 348-355: the ranks factor the panel together (core_zgetrf with the
\* shared barrier): the panel tiles and the local pivots are written
PanelFactor ==
    /\ \A r \in 1..NumRanks : ranks[r] = "spawned"
    /\ ranks' = [r \in 1..NumRanks |-> "factored"]
    /\ \E far \in BOOLEAN :
           ipiv' = [i \in DOMAIN ipiv |->
                       IF i >= IPIV(k + 1) /\ i < IPIV(k + 1) + PanelPivots(k)
                       THEN LocalPivot(i - IPIV(k + 1), tempm(k), far)
                       ELSE ipiv[i]]
    /\ ver' = [x \in DOMAIN ver |->
                  IF x \in PanelTiles(k) THEN ver[x] + 1 ELSE ver[x]]
    /\ wcol' = [x \in DOMAIN wcol |-> IF x \in PanelTiles(k) THEN k ELSE wcol[x]]
    /\ UNCHANGED <<Fixed, k, seqStatus, reqStatus, pc, tasks, nEmitted,
                   pivDone, failLog, full, joins>>

\* plasma_request_fail(sequence, request, code): the first failure is
\* recorded on the sequence and the request, later ones change nothing
RequestFail(code) ==
    IF seqStatus = PlasmaSuccess
    THEN seqStatus' = code /\ reqStatus' = code
    ELSE UNCHANGED <<seqStatus, reqStatus>>

PanelReportSeqOnly(code) == seqStatus' = code /\ UNCHANGED reqStatus

\* line 357: plasma_request_fail(sequence, request, ..)
PanelReport(code) == RequestFail(code)

FailCodeNextBlock(kk, info) == (kk + 1) * MB + info

\* line 357: k*A.mb+info
FailCode(kk, info) == kk * MB + info

\* the values core_zgetrf returns: 0, or the 1-based column of a zero pivot
InfoChoices(kk) == {0, 1, PanelPivots(kk)}

\* lines 353-357: a rank returns from core_zgetrf and reports info # 0
RankReturn ==
    \E r \in 1..NumRanks, info \in InfoChoices(k) :
        /\ ranks[r] = "factored"
        /\ ranks' = [ranks EXCEPT ![r] = "done"]
        /\ IF info # 0
           THEN /\ PanelReport(FailCode(k, info))
                /\ failLog' = failLog \cup
                       {[col |-> k, info |-> info, code |-> FailCode(k, info)]}
           ELSE UNCHANGED <<seqStatus, reqStatus, failLog>>
        /\ UNCHANGED <<Fixed, k, pc, tasks, nEmitted, ver, wcol, ipiv, pivDone,
                       full, joins>>

\* lines 361-362: the panel task's taskwait returns and the task ends
FinishPanel ==
    \E i \in 1..Len(tasks) :
        /\ tasks[i].kind = "panel"
        /\ tasks[i].st = "wait"
        /\ \A r \in 1..NumRanks : ranks[r] \in {"idle", "done"}
        /\ ranks' = [r \in 1..NumRanks |-> "idle"]
        /\ tasks' = Remove(i)
        /\ joins' = Append(joins, "361")
        /\ UNCHANGED <<Fixed, k, seqStatus, reqStatus, pc, nEmitted, ver, wcol,
                       ipiv, pivDone, failLog, full>>

Next ==
    \/ Enter
    \/ EmitOffDiag
    \/ EmitDiag
    \/ DiagJoinMirror
    \/ EmitCong
    \/ CongJoinMirror
    \/ EmitHkk
    \/ EmitColUpdate
    \/ EmitPanel
    \/ OffsetPivots
    \/ EmitRowSwaps
    \/ EmitSymBand
    \/ BandJoinMirror
    \/ EmitUpper
    \/ StartTask
    \/ FinishTask
    \/ StartPanel
    \/ PanelFactor
    \/ RankReturn
    \/ FinishPanel

Spec == Init /\ [][Next]_vars

(***************************************************************************)
(* Claims about the orchestrator (checked under Spec).                     *)
(***************************************************************************)

\* C4: once the shared status is non-success, no step of any stage, the
\* in-line steps of the orchestrating thread included, writes a tile of A,
\* T (or the workspace) or an entry of the pivot vector.
C4_NoWriteAfterFailure ==
    [][seqStatus # PlasmaSuccess => (ver' = ver /\ ipiv' = ipiv)]_vars

\* C5: when a panel rank of loop column k reports info, 1 <= info <= panel
\* width, the code on the sequence and the request is k*mb + info, which
\* lies in k*mb+1 .. k*mb+mvak.
C5_FailureCode ==
    (entryStatus = PlasmaSuccess /\ seqStatus # PlasmaSuccess) =>
        \E f \in failLog :
            /\ 1 <= f.info /\ f.info <= TileMView(f.col)
            /\ seqStatus = f.col * MB + f.info
            /\ reqStatus = f.col * MB + f.info
            /\ f.col * MB + 1 <= seqStatus
            /\ seqStatus <= f.col * MB + TileMView(f.col)

\* the panel of loop column 1 failed at its last column
C5_Witness ==
    /\ entryStatus = PlasmaSuccess
    /\ \E f \in failLog :
           f.col = 1 /\ f.info = PanelPivots(1) /\ seqStatus = f.code

C6_Consistent ==
    entryStatus = PlasmaSuccess =>
        /\ seqStatus = reqStatus
        /\ (seqStatus = PlasmaSuccess) <=> (failLog = {})
        /\ seqStatus # PlasmaSuccess =>
               \E f \in failLog : seqStatus = f.code /\ reqStatus = f.code

C6_SetOnce ==
    (entryStatus = PlasmaSuccess /\ seqStatus # PlasmaSuccess) =>
        (seqStatus' = seqStatus /\ reqStatus' = reqStatus)

C7_EntryFailed ==
    entryStatus # PlasmaSuccess =>
        /\ nEmitted = 0
        /\ tasks = <<>>
        /\ \A x \in DOMAIN ver : ver[x] = 0
        /\ ipiv = ipiv0
        /\ seqStatus = entryStatus
        /\ reqStatus = PlasmaSuccess
        /\ pc \in {"entry", "done"}

C7_Witness == entryStatus # PlasmaSuccess /\ pc = "done" /\ uplo = "Lower" /\ mt = 3

\* C8: a task of a later column that reads a tile does not start while a
\* task of an earlier column that writes that tile is incomplete.
C8_ColumnOrder ==
    \A i, j \in 1..Len(tasks) :
        (tasks[i].col < tasks[j].col /\ tasks[i].wr \cap tasks[j].rd # {})
            => tasks[j].st = "pending"

\* a task of column c+1 runs and reads a tile a task of column c wrote
C8_Witness ==
    \E j \in 1..Len(tasks) :
        /\ tasks[j].st = "run"
        /\ \E x \in tasks[j].rd \cap DOMAIN wcol : wcol[x] = tasks[j].col - 1

\* C9: the entries of a pivot block whose panel stage (factorization and
\* offset) is complete are never written again.
C9_PivotAppendOnly ==
    [][\A i \in DOMAIN ipiv :
           (i >= MB /\ i \div MB <= pivDone) => ipiv'[i] = ipiv[i]]_vars

\* two panel stages are complete
C9_Witness == pivDone >= 2 /\ seqStatus = PlasmaSuccess

\* the Lower path has finished, every task is complete, status success
FinishedOK ==
    /\ uplo = "Lower"
    /\ entryStatus = PlasmaSuccess
    /\ pc = "done"
    /\ tasks = <<>>
    /\ seqStatus = PlasmaSuccess

\* C10 as claimed: on success ipiv[0..n-1] is a bijection on 0..n-1.
C10_Bijection ==
    FinishedOK => {ipiv[i] : i \in 0..(Am - 1)} = 0..(Am - 1)

RECURSIVE SwapRows(_, _)
\* the rows after the interchanges row i <-> row ipiv[i]-1, i = from..n-1
SwapRows(p, from) ==
    IF from > Am - 1 THEN p
    ELSE SwapRows([p EXCEPT ![from] = p[ipiv[from] - 1],
                            ![ipiv[from] - 1] = p[from]], from + 1)

\* C10 amended: on success every entry the factorization writes, ipiv[i] for
\* mb <= i < n, is a 1-based row index in i+1..n, so the interchanges
\* compose to a bijection of the rows.
C10_PivotInterchanges ==
    FinishedOK =>
        /\ \A i \in MB..(Am - 1) : i + 1 <= ipiv[i] /\ ipiv[i] <= Am
        /\ LET p == SwapRows([i \in 0..(Am - 1) |-> i], MB)
           IN {p[i] : i \in 0..(Am - 1)} = 0..(Am - 1)

\* three tile-rows, and some row was interchanged with a later one
C10_Witness ==
    FinishedOK /\ mt = 3 /\ \E i \in MB..(Am - 1) : ipiv[i] > i + 1

(***************************************************************************)
(* SpecStage: the first half of one column iteration, from the             *)
(* off-diagonal blocks to the column update, for any column k.  The        *)
(* iteration begins with an empty pool (the taskwait of line 465, or the   *)
(* entry of the routine).                                                  *)
(***************************************************************************)
StageMaxMt == 5
StageMaxTot == 3

InitStage ==
    /\ mt \in 1..StageMaxMt
    /\ tot \in 1..StageMaxTot
    /\ max_threads \in 1..OrchMaxThreads
    /\ k \in 0..(mt - 1)
    /\ uplo = "Lower"
    /\ Am = mt * MB
    /\ entryStatus = PlasmaSuccess
    /\ seqStatus = PlasmaSuccess
    /\ reqStatus = PlasmaSuccess
    /\ pc = "offdiag"
    /\ tasks = <<>>
    /\ nEmitted = 0
    /\ ranks = [r \in 1..NumRanks |-> "idle"]
    /\ ver = [x \in AllTiles |-> 0]
    /\ wcol = [x \in AllTiles |-> -1]
    /\ ipiv0 = [i \in 0..(Am - 1) |-> i]
    /\ ipiv = ipiv0
    /\ pivDone = k
    /\ failLog = {}
    /\ full = {TTile(m, m) : m \in 0..(k - 1)}
    /\ joins = <<>>
    /\ RedIdle
    /\ DrvIdle
    /\ TreeIdle

NextStage ==
    \/ EmitOffDiag
    \/ EmitDiag
    \/ DiagJoinMirror
    \/ EmitCong
    \/ CongJoinMirror
    \/ EmitHkk
    \/ EmitColUpdate
    \/ StartTask
    \/ FinishTask

SpecStage == InitStage /\ [][NextStage]_vars

\* the tiles of the reduction zone, W3(0..tot-1) = W4(0..tot-1)
SlotZone == {W3Tile(j) : j \in 0..(tot - 1)}

\* C11: while a tournament add or a final add reads a reduction slot as its
\* source, no task of the column that writes that slot is incomplete; while
\* it reads a slot as the accumulator it adds into, no task emitted before
\* it that writes that slot is incomplete.
C11_SlotReadAfterWrites ==
    \A j \in 1..Len(tasks) :
        (tasks[j].kind = "geadd" /\ tasks[j].st = "run") =>
            /\ \A s \in (tasks[j].rd \ tasks[j].wr) \cap SlotZone :
                   \A i \in 1..Len(tasks) : i # j => s \notin tasks[i].wr
            /\ \A s \in (tasks[j].rd \cap tasks[j].wr) \cap SlotZone :
                   \A i \in 1..(j - 1) : s \notin tasks[i].wr

\* a tournament add runs whose two slots each received an accumulation of
\* this column, the accumulator two of them
C11_Witness ==
    \E j \in 1..Len(tasks) :
        /\ tasks[j].kind = "geadd"
        /\ tasks[j].st = "run"
        /\ tasks[j].rd \subseteq SlotZone
        /\ \A s \in tasks[j].rd : wcol[s] = k
        /\ \E s \in tasks[j].wr : ver[s] >= 2

\* the zones of the pool, with the sizes the macros' comments give them
\* (W: mt tiles, W2: 2mt tiles, W3 and W4: tot tiles)
ZoneW == {WTile(j) : j \in 0..(mt - 1)}
ZoneW2 == {W2Tile(j) : j \in 0..(2 * mt - 1)}
ZoneW3 == {W3Tile(j) : j \in 0..(tot - 1)}
ZoneW4 == {W4Tile(j) : j \in 0..(tot - 1)}

\* C12 as claimed: the four zones W, W2, W3, W4 are pairwise disjoint.
C12_FourZonesDisjoint ==
    /\ ZoneW \cap ZoneW2 = {}
    /\ ZoneW \cap ZoneW3 = {}
    /\ ZoneW \cap ZoneW4 = {}
    /\ ZoneW2 \cap ZoneW3 = {}
    /\ ZoneW2 \cap ZoneW4 = {}
    /\ ZoneW3 \cap ZoneW4 = {}

\* C12 amended: W, W2 and the reduction zone are pairwise disjoint and
\* make up the pool; W3 and W4 are one and the same zone.
C12_ThreeZones ==
    /\ ZoneW \cap ZoneW2 = {}
    /\ ZoneW \cap ZoneW3 = {}
    /\ ZoneW2 \cap ZoneW3 = {}
    /\ ZoneW3 = ZoneW4
    /\ ZoneW \cup ZoneW2 \cup ZoneW3 = {WPool(j) : j \in 0..(3 * mt + tot - 1)}

\* a column-update product is written to a slot that the diagonal assembly
\* of the same column used, with a T(k,k) product staged in W(0) and the H
\* blocks in W2
C12_Witness ==
    /\ pc = "panel_join"
    /\ k >= 2
    /\ ver[WTile(0)] >= 1
    /\ ver[W2Tile(1)] >= 1
    /\ ver[W3Tile(0)] >= 1
    /\ \E j \in 1..Len(tasks) :
           /\ tasks[j].kind = "gemm"
           /\ tasks[j].st = "run"
           /\ tasks[j].wr = {W4Tile(0)}

\* T(i, j), a tile of the band: |i - j| <= 1
InBand(x) == x[2] - x[3] <= 1 /\ x[3] - x[2] <= 1

\* C13: in the Lower path every tile of T that a task reads or writes, or
\* that the orchestrating thread has written, is a tile T(i,j) with
\* |i - j| <= 1.
C13_TBand ==
    uplo = "Lower" =>
        /\ \A j \in 1..Len(tasks) :
               \A x \in tasks[j].rd \cup tasks[j].wr : x[1] = "T" => InBand(x)
        /\ \A x \in DOMAIN ver : (x[1] = "T" /\ ver[x] > 0) => InBand(x)

\* column 2: an off-diagonal product reads T(2,1) while T(0,1), T(1,0),
\* T(1,2) and T(2,1) have been written
C13_Witness ==
    /\ uplo = "Lower"
    /\ mt = 3
    /\ k = 2
    /\ ver[TTile(0, 1)] > 0 /\ ver[TTile(1, 0)] > 0
    /\ ver[TTile(1, 2)] > 0 /\ ver[TTile(2, 1)] > 0
    /\ \E j \in 1..Len(tasks) :
           tasks[j].st = "run" /\ TTile(2, 1) \in tasks[j].rd

\* C14 (the exact part of it): with mt in {1,2,3,8} the panel of column 0
\* factors the tiles of A as they were given, a condition without which
\* L*T*L^H cannot equal P^T*A*P whatever the rounding.
C14_Reconstruction ==
    (stage = "col" /\ rpc = "done" /\ k = 0 /\ mt \in {1, 2, 3, 8}) =>
        \A m \in 1..(mt - 1) : Lcol[m] = One(LPrior(m, 0))

\* C19: in column k = 0 no task of the column update writes a tile
\* L(m,1), m = 1..mt-1, whichever strategy the heuristic selects.
C19_ColumnZeroFrame ==
    (k = 0 /\ pc \in {"colupd", "panel_join"}) =>
        \A m \in 1..(mt - 1) :
            /\ ver[LTile(m, 1)] = 0
            /\ \A j \in 1..Len(tasks) : LTile(m, 1) \notin tasks[j].wr

(***************************************************************************)
(* SpecDrv: the drivers PLASMA_zposv and plasma_omp_zposv                  *)
(* (src/compute/zposv.c), PLASMA_ztrmm and plasma_omp_ztrmm                *)
(* (src/compute/ztrmm.c).                                                  *)
(*                                                                         *)
(* Matrices are symbolic values.  The asynchronous calls of a driver run   *)
(* in program order; the parallel region ends with a synchronization, so   *)
(* the state at return is the state after the last of them.  What a call   *)
(* into code outside these files does (translation, factorization, solve,  *)
(* multiply, plasma_request_fail) is taken from its documentation.         *)
(***************************************************************************)
DrvMaxN == 2
DrvMaxAlpha == 2

PlasmaErrorNotInitialized == -101
PlasmaErrorIllegalValue == -103
PlasmaErrorOutOfMemory == -104

\* the caller's matrices on entry
A0 == <<"A0">>
\* the Cholesky factor of a
Chol(a) == <<"chol", a>>
\* the solution of the two triangular solves with the factor f
Solve(f, b) == <<"solve", f, b>>
\* coef * term, term one of "B0", "op(A)*B0", "B0*op(A)"
Scaled(coef, term) == <<"scaled", coef, term>>
B0 == Scaled(1, "B0")

imax(a, b) == IF a > b THEN a ELSE b

UploValues == {"PlasmaUpper", "PlasmaLower", "Illegal"}
SideValues == {"PlasmaLeft", "PlasmaRight", "Illegal"}

\* arguments a routine does not look at take these values
ArgDefault ==
    [ctx |-> TRUE, uplo |-> "PlasmaLower", m |-> 1, n |-> 1, nrhs |-> 1,
     lda |-> 1,
     ldb |-> 1, create |-> "ok", info |-> 0, Aok |-> TRUE, Bok |-> TRUE,
     seqNull |-> FALSE, reqNull |-> FALSE, side |-> "PlasmaLeft",
     transOk |-> TRUE, diagOk |-> TRUE, alpha |-> 1, empty |-> FALSE]

ZposvArgs ==
    {[ArgDefault EXCEPT !.ctx = c, !.uplo = u, !.n = n, !.nrhs = r,
                        !.lda = la, !.ldb = lb, !.create = cr, !.info = i] :
        c \in BOOLEAN, u \in UploValues, n \in (-1)..DrvMaxN,
        r \in (-1)..1, la \in 0..DrvMaxN, lb \in 0..DrvMaxN,
        cr \in {"ok", "failA", "failB", "failSeq"}, i \in 0..1}

OmpZposvArgs ==
    {[ArgDefault EXCEPT !.ctx = c, !.uplo = u, !.Aok = a, !.Bok = b,
                        !.seqNull = sn, !.reqNull = rn, !.info = i] :
        c \in BOOLEAN, u \in UploValues, a \in BOOLEAN, b \in BOOLEAN,
        sn \in BOOLEAN, rn \in BOOLEAN, i \in 0..1}

OmpZtrmmArgs ==
    {[ArgDefault EXCEPT !.ctx = c, !.side = sd, !.uplo = u, !.transOk = t,
                        !.diagOk = d, !.Aok = a, !.Bok = b, !.seqNull = sn,
                        !.reqNull = rn, !.alpha = al, !.empty = e] :
        c \in BOOLEAN, sd \in SideValues, u \in UploValues, t \in BOOLEAN,
        d \in BOOLEAN, a \in BOOLEAN, b \in BOOLEAN, sn \in BOOLEAN,
        rn \in BOOLEAN, al \in 0..DrvMaxAlpha, e \in BOOLEAN}

\* PLASMA_ztrmm(side, uplo, transA, diag, m, n, alpha, A, lda, B, ldb)
ZtrmmArgs ==
    {[ArgDefault EXCEPT !.ctx = c, !.side = sd, !.uplo = u, !.transOk = t,
                        !.diagOk = d, !.m = m, !.n = n, !.alpha = al,
                        !.lda = la, !.ldb = lb, !.create = cr] :
        c \in BOOLEAN, sd \in SideValues, u \in UploValues, t \in BOOLEAN,
        d \in BOOLEAN, m \in (-1)..DrvMaxN, n \in (-1)..DrvMaxN,
        al \in 0..DrvMaxAlpha, la \in 0..DrvMaxN, lb \in 0..DrvMaxN,
        cr \in {"ok", "failA", "failB", "failSeq"}}

\* the routines that create their own descriptors and sequence
Blocking == {"PLASMA_zposv", "PLASMA_ztrmm"}

InitDrv ==
    /\ mt = 1 /\ tot = 1 /\ max_threads = 1 /\ k = 0
    /\ RedIdle
    /\ FactIdle
    /\ TreeIdle
    /\ routine \in {"PLASMA_zposv", "plasma_omp_zposv", "PLASMA_ztrmm",
                    "plasma_omp_ztrmm"}
    /\ arg \in CASE routine = "PLASMA_zposv" -> ZposvArgs
                 [] routine = "plasma_omp_zposv" -> OmpZposvArgs
                 [] routine = "PLASMA_ztrmm" -> ZtrmmArgs
                 [] OTHER -> OmpZtrmmArgs
    /\ dpc = CASE routine = "PLASMA_zposv" -> "entry"
               [] routine = "plasma_omp_zposv" -> "omp"
               [] routine = "PLASMA_ztrmm" -> "tentry"
               [] OTHER -> "trmm"
    /\ ret = PlasmaSuccess
    /\ userA = A0
    /\ userB = B0
    /\ descA = IF routine \in Blocking THEN <<>> ELSE A0
    /\ descB = IF routine \in Blocking THEN <<>> ELSE B0
    /\ dseq = PlasmaSuccess
    /\ dreq = PlasmaSuccess
    /\ made = IF routine \in Blocking THEN {}
              ELSE {"descA", "descB"}
                   \cup (IF arg.seqNull THEN {} ELSE {"sequence"})
    /\ called = <<>>

\* what no action of SpecDrv changes
DrvFixed == <<paramVars, redVars, factVars, treeVars, routine, arg>>

ZposvArgErrorLdbFirst(a) ==
    IF a.uplo \notin {"PlasmaUpper", "PlasmaLower"} THEN -1
    ELSE IF a.n < 0 THEN -2
    ELSE IF a.nrhs < 0 THEN -3
    ELSE IF a.ldb < imax(1, a.n) THEN -7
    ELSE IF a.lda < imax(1, a.n) THEN -5
    ELSE 0

\* zposv.c lines 106-127: the value returned for the first illegal
\* argument, 0 if every argument is legal
ZposvArgError(a) ==
    IF a.uplo \notin {"PlasmaUpper", "PlasmaLower"} THEN -1
    ELSE IF a.n < 0 THEN -2
    ELSE IF a.nrhs < 0 THEN -3
    ELSE IF a.lda < imax(1, a.n) THEN -5
    ELSE IF a.ldb < imax(1, a.n) THEN -7
    ELSE 0

\* zposv.c lines 99-127
ZposvCheck ==
    /\ routine = "PLASMA_zposv"
    /\ dpc = "entry"
    /\ IF ~arg.ctx
       THEN ret' = PlasmaErrorNotInitialized /\ dpc' = "returned"
       ELSE IF ZposvArgError(arg) # 0
            THEN ret' = ZposvArgError(arg) /\ dpc' = "returned"
            ELSE ret' = ret /\ dpc' = "create"
    /\ UNCHANGED <<DrvFixed, userA, userB, descA, descB, dseq, dreq, made,
                   called>>

\* zposv.c lines 140-165: the two descriptors and the sequence are created;
\* arg.create says which creation, if any, fails
ZposvCreate ==
    /\ dpc = "create"
    /\ called' = called \o
           CASE arg.create = "failA" -> <<"plasma_desc_general_create">>
             [] arg.create = "failB" ->
                    <<"plasma_desc_general_create",
                      "plasma_desc_general_create", "plasma_desc_destroy">>
             [] OTHER ->
                    <<"plasma_desc_general_create",
                      "plasma_desc_general_create", "plasma_sequence_create">>
    /\ made' = CASE arg.create \in {"failA", "failB"} -> {}
                 [] arg.create = "failSeq" -> {"descA", "descB"}
                 [] OTHER -> {"descA", "descB", "sequence"}
    /\ ret' = IF arg.create = "ok" THEN ret ELSE PlasmaErrorOutOfMemory
    /\ dpc' = IF arg.create = "ok" THEN "to_tile" ELSE "returned"
    /\ UNCHANGED <<DrvFixed, userA, userB, descA, descB, dseq, dreq>>

\* zposv.c lines 170-172: A and B are translated to tile layout
ZposvToTile ==
    /\ dpc = "to_tile"
    /\ descA' = IF dseq = PlasmaSuccess THEN userA ELSE descA
    /\ descB' = IF dseq = PlasmaSuccess THEN userB ELSE descB
    /\ called' = called \o <<"PLASMA_zcm2ccrb_Async", "PLASMA_zcm2ccrb_Async">>
    /\ dpc' = "omp"
    /\ UNCHANGED <<DrvFixed, ret, userA, userB, dseq, dreq, made>>

\* plasma_request_fail(sequence, request, code), then the routine goes to
\* next.  The first failure is the one recorded.  Through a NULL sequence
\* or request the call dereferences a null pointer: the run traps or goes
\* on with nothing recorded.
DrvRequestFail(code, next) ==
    IF arg.seqNull \/ arg.reqNull
    THEN /\ dpc' \in {"trap", next}
         /\ UNCHANGED <<dseq, dreq>>
    ELSE /\ dpc' = next
         /\ dseq' = IF dseq = PlasmaSuccess THEN code ELSE dseq
         /\ dreq' = IF dreq = PlasmaSuccess THEN code ELSE dreq

\* where plasma_omp_zposv returns to
AfterOmp == IF routine = "PLASMA_zposv" THEN "to_lapack" ELSE "returned"

\* zposv.c lines 256-289
OmpZposvCheck ==
    /\ dpc = "omp"
    /\ IF ~arg.ctx
       THEN DrvRequestFail(PlasmaErrorIllegalValue, AfterOmp)
       ELSE IF arg.uplo \notin {"PlasmaUpper", "PlasmaLower"}
            THEN dpc' = AfterOmp /\ UNCHANGED <<dseq, dreq>>
            ELSE IF ~arg.Aok \/ ~arg.Bok \/ arg.seqNull \/ arg.reqNull
                 THEN DrvRequestFail(PlasmaErrorIllegalValue, AfterOmp)
                 ELSE dpc' = "potrf" /\ UNCHANGED <<dseq, dreq>>
    /\ UNCHANGED <<DrvFixed, ret, userA, userB, descA, descB, made, called>>

\* zposv.c line 296: plasma_pzpotrf; arg.info > 0 is the order of a
\* leading minor that is not positive definite
Potrf ==
    /\ dpc = "potrf"
    /\ called' = Append(called, "plasma_pzpotrf")
    /\ IF dseq = PlasmaSuccess /\ arg.info = 0
       THEN descA' = Chol(descA) /\ UNCHANGED <<dseq, dreq>>
       ELSE /\ descA' = descA
            /\ dseq' = IF dseq = PlasmaSuccess THEN arg.info ELSE dseq
            /\ dreq' = IF dseq = PlasmaSuccess THEN arg.info ELSE dreq
    /\ dpc' = "trsm"
    /\ UNCHANGED <<DrvFixed, ret, userA, userB, descB, made>>

\* zposv.c lines 298-314: the two plasma_pztrsm
Trsm ==
    /\ dpc = "trsm"
    /\ called' = called \o <<"plasma_pztrsm", "plasma_pztrsm">>
    /\ descB' = IF dseq = PlasmaSuccess THEN Solve(descA, descB) ELSE descB
    /\ dpc' = AfterOmp
    /\ UNCHANGED <<DrvFixed, ret, userA, userB, descA, dseq, dreq, made>>

\* zposv.c lines 180-192: B is translated back, the tile matrices and the
\* sequence are destroyed, the status is returned
ZposvFinish ==
    /\ dpc = "to_lapack"
    /\ called' = called \o <<"PLASMA_zccrb2cm_Async", "plasma_desc_destroy",
                             "plasma_desc_destroy", "plasma_sequence_destroy">>
    /\ userB' = IF dseq = PlasmaSuccess THEN descB ELSE userB
    /\ made' = {}
    /\ ret' = dseq
    /\ dpc' = "returned"
    /\ UNCHANGED <<DrvFixed, userA, descA, descB, dseq, dreq>>

\* ztrmm.c lines 120-165: the value returned for the first illegal
\* argument, 0 if every argument is legal
ZtrmmArgError(a) ==
    IF a.side \notin {"PlasmaLeft", "PlasmaRight"} THEN -1
    ELSE IF a.uplo \notin {"PlasmaUpper", "PlasmaLower"} THEN -2
    ELSE IF ~a.transOk THEN -3
    ELSE IF ~a.diagOk THEN -4
    ELSE IF a.m < 0 THEN -5
    ELSE IF a.n < 0 THEN -6
    ELSE IF a.lda < imax(1, IF a.side = "PlasmaLeft" THEN a.m ELSE a.n) THEN -8
    ELSE IF a.ldb < imax(1, a.m) THEN -10
    ELSE 0

\* ztrmm.c lines 113-170: context, argument checks, quick return
ZtrmmCheck ==
    /\ routine = "PLASMA_ztrmm"
    /\ dpc = "tentry"
    /\ IF ~arg.ctx
       THEN ret' = PlasmaErrorNotInitialized /\ dpc' = "returned"
       ELSE IF ZtrmmArgError(arg) # 0
            THEN ret' = ZtrmmArgError(arg) /\ dpc' = "returned"
            ELSE IF imin(arg.m, arg.n) = 0
                 THEN ret' = PlasmaSuccess /\ dpc' = "returned"
                 ELSE ret' = ret /\ dpc' = "tcreate"
    /\ UNCHANGED <<DrvFixed, userA, userB, descA, descB, dseq, dreq, made,
                   called>>

\* ztrmm.c lines 172-200: the two descriptors and the sequence are created;
\* arg.create says which creation, if any, fails
ZtrmmCreate ==
    /\ dpc = "tcreate"
    /\ called' = called \o
           CASE arg.create = "failA" -> <<"plasma_desc_general_create">>
             [] arg.create = "failB" ->
                    <<"plasma_desc_general_create",
                      "plasma_desc_general_create", "plasma_desc_destroy">>
             [] OTHER ->
                    <<"plasma_desc_general_create",
                      "plasma_desc_general_create", "plasma_sequence_create">>
    /\ made' = CASE arg.create \in {"failA", "failB"} -> {}
                 [] arg.create = "failSeq" -> {"descA", "descB"}
                 [] OTHER -> {"descA", "descB", "sequence"}
    /\ ret' = IF arg.create = "ok" THEN ret ELSE PlasmaErrorOutOfMemory
    /\ dpc' = IF arg.create = "ok" THEN "t_to_tile" ELSE "returned"
    /\ UNCHANGED <<DrvFixed, userA, userB, descA, descB, dseq, dreq>>

\* ztrmm.c lines 206-208: A and B are translated to tile layout
ZtrmmToTile ==
    /\ dpc = "t_to_tile"
    /\ descA' = IF dseq = PlasmaSuccess THEN userA ELSE descA
    /\ descB' = IF dseq = PlasmaSuccess THEN userB ELSE descB
    /\ called' = called \o <<"PLASMA_zcm2ccrb_Async", "PLASMA_zcm2ccrb_Async">>
    /\ dpc' = "trmm"
    /\ UNCHANGED <<DrvFixed, ret, userA, userB, dseq, dreq, made>>

\* ztrmm.c lines 216-229: A and B are translated back, the tile matrices
\* and the sequence are destroyed, the status is returned
ZtrmmFinish ==
    /\ dpc = "t_to_lapack"
    /\ called' = called \o <<"PLASMA_zccrb2cm_Async", "PLASMA_zccrb2cm_Async",
                             "plasma_desc_destroy", "plasma_desc_destroy",
                             "plasma_sequence_destroy">>
    /\ userA' = IF dseq = PlasmaSuccess THEN descA ELSE userA
    /\ userB' = IF dseq = PlasmaSuccess THEN descB ELSE userB
    /\ made' = {}
    /\ ret' = dseq
    /\ dpc' = "returned"
    /\ UNCHANGED <<DrvFixed, descA, descB, dseq, dreq>>

\* where plasma_omp_ztrmm returns to
AfterTrmm == IF routine = "PLASMA_ztrmm" THEN "t_to_lapack" ELSE "returned"

\* ztrmm.c lines 277-328
OmpZtrmmCheck ==
    /\ dpc = "trmm"
    /\ IF ~arg.ctx
       THEN DrvRequestFail(PlasmaErrorNotInitialized, AfterTrmm)
       ELSE IF \/ arg.side \notin {"PlasmaLeft", "PlasmaRight"}
               \/ arg.uplo \notin {"PlasmaUpper", "PlasmaLower"}
               \/ ~arg.transOk \/ ~arg.diagOk
               \/ ~arg.Aok \/ ~arg.Bok
               \/ arg.seqNull \/ arg.reqNull
            THEN DrvRequestFail(PlasmaErrorIllegalValue, AfterTrmm)
            ELSE dpc' = "trmm_run" /\ UNCHANGED <<dseq, dreq>>
    /\ UNCHANGED <<DrvFixed, ret, userA, userB, descA, descB, made, called>>

\* ztrmm.c line 331: the quick return
TrmmQuickReturn(a) == a.empty \/ a.alpha = 0

\* alpha*op(A)*B or alpha*B*op(A)
TrmmProduct(a) ==
    Scaled(a.alpha, IF a.side = "PlasmaLeft" THEN "op(A)*B0" ELSE "B0*op(A)")

\* ztrmm.c lines 330-338
OmpZtrmmRun ==
    /\ dpc = "trmm_run"
    /\ IF TrmmQuickReturn(arg)
       THEN UNCHANGED <<descB, called>>
       ELSE /\ called' = Append(called, "plasma_pztrmm")
            /\ descB' = IF dseq = PlasmaSuccess THEN TrmmProduct(arg)
                        ELSE descB
    /\ dpc' = AfterTrmm
    /\ UNCHANGED <<DrvFixed, ret, userA, userB, descA, dseq, dreq, made>>

NextDrv ==
    \/ ZposvCheck
    \/ ZposvCreate
    \/ ZposvToTile
    \/ OmpZposvCheck
    \/ Potrf
    \/ Trsm
    \/ ZposvFinish
    \/ ZtrmmCheck
    \/ ZtrmmCreate
    \/ ZtrmmToTile
    \/ OmpZtrmmCheck
    \/ OmpZtrmmRun
    \/ ZtrmmFinish

SpecDrv == InitDrv /\ [][NextDrv]_vars

\* C15: when PLASMA_zposv returns 0 the caller's array A holds the
\* Cholesky factor of the matrix it held on entry.
C15_FactorReturned ==
    (routine = "PLASMA_zposv" /\ dpc = "returned" /\ ret = PlasmaSuccess) =>
        userA = Chol(A0)

\* two matrices of the form coef * term are equal
SameMatrix(x, y) == IF x[2] = 0 \/ y[2] = 0 THEN x[2] = y[2] ELSE x = y

\* the arguments of plasma_omp_ztrmm are all legal
OmpZtrmmLegal ==
    /\ arg.ctx
    /\ arg.side \in {"PlasmaLeft", "PlasmaRight"}
    /\ arg.uplo \in {"PlasmaUpper", "PlasmaLower"}
    /\ arg.transOk /\ arg.diagOk
    /\ arg.Aok /\ arg.Bok
    /\ ~arg.seqNull /\ ~arg.reqNull

\* C16: given legal arguments, non-empty A and B and a sequence that has not
\* failed, plasma_omp_ztrmm leaves B equal to alpha*op(A)*B (side Left) or
\* alpha*B*op(A) (side Right), for every alpha, 0 included.
C16_TrmmResult ==
    (/\ routine = "plasma_omp_ztrmm"
     /\ dpc = "returned"
     /\ OmpZtrmmLegal
     /\ ~arg.empty) =>
        SameMatrix(descB, TrmmProduct(arg))

\* plasma_omp_zposv finds one of its arguments in error
OmpZposvArgumentError ==
    \/ ~arg.ctx
    \/ arg.uplo \notin {"PlasmaUpper", "PlasmaLower"}
    \/ ~arg.Aok
    \/ ~arg.Bok

\* C17: plasma_omp_zposv, given a sequence and a request that are not NULL,
\* returns from every argument error it detects with sequence->status and
\* request->status set to an error value and with neither plasma_pzpotrf
\* nor plasma_pztrsm called.
C17_ErrorsReported ==
    (/\ routine = "plasma_omp_zposv"
     /\ dpc = "returned"
     /\ ~arg.seqNull /\ ~arg.reqNull
     /\ OmpZposvArgumentError) =>
        /\ dseq # PlasmaSuccess
        /\ dreq # PlasmaSuccess
        /\ called = <<>>

\* the positions of the illegal arguments of PLASMA_zposv
ZposvIllegal ==
    {i \in {1, 2, 3, 5, 7} :
        \/ i = 1 /\ arg.uplo \notin {"PlasmaUpper", "PlasmaLower"}
        \/ i = 2 /\ arg.n < 0
        \/ i = 3 /\ arg.nrhs < 0
        \/ i = 5 /\ arg.lda < imax(1, arg.n)
        \/ i = 7 /\ arg.ldb < imax(1, arg.n)}

\* C18: with an initialized context and some illegal argument, PLASMA_zposv
\* returns -i for the least position i of an illegal argument, having
\* created no descriptor and no sequence and with A and B untouched.
C18_FirstIllegalArgument ==
    (/\ routine = "PLASMA_zposv"
     /\ arg.ctx
     /\ ZposvIllegal # {}
     /\ dpc # "entry") =>
        /\ dpc = "returned"
        /\ \E i \in ZposvIllegal :
               /\ ret = -i
               /\ \A j \in ZposvIllegal : i <= j
        /\ called = <<>>
        /\ made = {}
        /\ userA = A0
        /\ userB = B0

\* lda and ldb are both illegal and -5 is returned
C18_Witness ==
    /\ routine = "PLASMA_zposv"
    /\ dpc = "returned"
    /\ ret = -5
    /\ 7 \in ZposvIllegal

\* the hegst of column k runs
HegstRuns ==
    \E j \in 1..Len(tasks) : tasks[j].kind = "hegst" /\ tasks[j].st = "run"

\* the multiply chain of column k is complete: W(0) was last written in
\* this column, T(k,k) has received its copy of A(k,k), the reduced sum and
\* the chain's product, and no task other than the hegst is left that
\* writes either tile
ChainDone ==
    /\ wcol[WTile(0)] = k
    /\ ver[TTile(k, k)] = 3
    /\ \A j \in 1..Len(tasks) :
           tasks[j].kind # "hegst" =>
               tasks[j].wr \cap {WTile(0), TTile(k, k)} = {}

\* C20 as claimed: in every column k > 0 the chain W(0) = L(k,k)*T(k,k-1),
\* T(k,k) -= W(0)*L(k,k-1)^H is complete before the hegst runs.
C20_ChainBeforeHegst == (HegstRuns /\ k > 0) => ChainDone

\* C20 amended: in every column k > 1 the chain is complete before the
\* hegst runs; in column 1 there is no chain, W(0) is not written and the
\* hegst is applied to the copy of A(1,1).
C20_ChainBeforeHegstFrom2 ==
    HegstRuns =>
        /\ k > 1 => ChainDone
        /\ k = 1 => (ver[WTile(0)] = 0 /\ wcol[TTile(1, 1)] # -1)

\* the hegst of column 3 runs
C20_Witness == HegstRuns /\ k = 3 /\ ChainDone


(***************************************************************************)
(* The mirror of T(k,k) and the operations that read the tile.             *)
(***************************************************************************)
\* a task of the current column that has started and reads T(k,k) in a
\* multiply update or in the congruence reduction
ReadsAssembled(i) ==
    /\ tasks[i].st = "run"
    /\ tasks[i].col = k
    /\ tasks[i].kind \in {"gemm", "hegst"}
    /\ TTile(k, k) \in tasks[i].rd

\* C21: in every column k, once T(k,k) is assembled, no multiply update and
\* no congruence reduction reads it before its upper triangle has been set
\* to the conjugate transpose of its lower triangle.
C21_MirrorBeforeFirstRead ==
    \A i \in 1..Len(tasks) :
        (ReadsAssembled(i) /\ TileMView(k) >= 2) => TTile(k, k) \in full

\* C21 as the code has it: the assembled T(k,k) is mirrored before the
\* congruence reduction only for k <= 1 (lines 167-172); for k >= 2 the
\* second chain product and the hegst read it unmirrored, and the mirror
\* follows the hegst (lines 200-205).  In every column a product that takes
\* a diagonal tile T(m,m) as an input operand (lines 84 and 226) starts only
\* after that tile has been mirrored.
C21_MirrorBeforeProduct ==
    \A i \in 1..Len(tasks) :
        /\ (tasks[i].st = "run" /\ tasks[i].kind = "gemm") =>
               \A m \in 0..(mt - 1) :
                   (TTile(m, m) \in tasks[i].din /\ TileMView(m) >= 2) =>
                       TTile(m, m) \in full
        /\ (ReadsAssembled(i) /\ k <= 1 /\ TileMView(k) >= 2) =>
               TTile(k, k) \in full

\* column 2: the product T(2,2)*L(2,2)^H of line 223 is running
C21_Witness ==
    /\ k = 2
    /\ \E i \in 1..Len(tasks) :
           /\ tasks[i].st = "run"
           /\ tasks[i].kind = "gemm"
           /\ TTile(2, 2) \in tasks[i].din

(***************************************************************************)
(* The taskwaits of one iteration of the Lower loop.                       *)
(***************************************************************************)
\* the taskwaits of iteration kk in program order, each named by its line:
\* 338, 363, 385 and 465 belong to the orchestrating thread, 361 to the
\* panel task
PanelJoins == <<"338", "361", "363", "385", "465">>

JoinsOfColumn(kk) ==
    (IF kk <= 1 THEN <<"167">> ELSE <<>>)
    \o (IF kk >= 1 THEN <<"200">> ELSE <<>>)
    \o (IF kk + 1 < mt THEN PanelJoins ELSE <<>>)

\* C22: an iteration of the Lower loop with a panel joins at exactly three
\* points, before the panel factorization, inside it, and after the pivot
\* propagation, and nowhere else.
C22_ThreeJoins ==
    (uplo = "Lower" /\ pc = "offdiag" /\ k >= 1) =>
        /\ Len(joins) = 3
        /\ joins[1] = "338"
        /\ joins[2] = "361"
        /\ joins[3] \in {"385", "465"}

\* C22 as the code has it: an iteration k with k+1 < nt joins after the
\* copy of A(k,k) when k <= 1 (line 167), after the congruence reduction
\* when k >= 1 (line 200), before the panel task (338), inside it (361),
\* after it (363), after the row swaps (385) and after the band tasks (465),
\* in that order; the last iteration joins at lines 167 and 200 only.
C22_JoinPoints ==
    /\ (uplo = "Lower" /\ pc = "offdiag" /\ k >= 1) => joins = JoinsOfColumn(k - 1)
    /\ (uplo = "Lower" /\ pc = "done" /\ entryStatus = PlasmaSuccess) =>
           joins = JoinsOfColumn(mt - 1)

\* iteration 1 of three is over: it joined at both 167 and 200
C22_Witness == uplo = "Lower" /\ pc = "offdiag" /\ k = 2 /\ Len(joins) = 7

(***************************************************************************)
(* Pivot propagation.                                                      *)
(***************************************************************************)
\* a pivot propagation task, row-only (laswp) or symmetric (laswp_sym)
IsSwap(t) == t.kind \in {"laswp", "laswp_sym"}

\* the panel task of the column is complete and no rank is at work
PanelOver ==
    /\ \A j \in 1..Len(tasks) : tasks[j].kind # "panel"
    /\ \A r \in 1..NumRanks : ranks[r] = "idle"

\* C23: a pivot propagation task of column k, whether a row swap on a
\* tile-column n = 1..k or the symmetric swap on the trailing submatrix,
\* starts only after the panel task of column k is complete and the pivots
\* of block k+1 have been offset to global rows; both passes name the same
\* pivot range, the 1-based positions of the entries the panel populated.
C23_SwapsAfterPanel ==
    \A i \in 1..Len(tasks) :
        IsSwap(tasks[i]) =>
            /\ tasks[i].range =
                   <<IPIV(tasks[i].col + 1) + 1,
                     IPIV(tasks[i].col + 1) + PanelPivots(tasks[i].col)>>
            /\ tasks[i].st # "pending" =>
                   /\ tasks[i].col = k
                   /\ PanelOver
                   /\ pivDone = k + 1

\* column 1 of three: a row swap and, later, the symmetric swap have run
\* after a successful panel
C23_Witness ==
    /\ k = 1
    /\ mt = 3
    /\ seqStatus = PlasmaSuccess
    /\ \E i \in 1..Len(tasks) : tasks[i].kind = "laswp_sym" /\ tasks[i].st = "run"
    /\ \E a \in 0..(Am - 1) : a >= IPIV(2) /\ ipiv[a] > a + 1

(***************************************************************************)
(* The accesses the orchestrating thread makes itself.                     *)
(***************************************************************************)
\* what the orchestrating thread reads or writes in line when it leaves pc:
\* T(k,k) in the mirror loops (168-172, 201-205), IPIV(k+1) in the offset
\* loop (364-366), T(k,k+1) and T(k+1,k) in the mirror loop (466-470)
InlineData ==
    CASE pc \in {"diag_join", "cong_join"} -> {TTile(k, k)}
      [] pc = "offset" -> {PivBlock(k + 1)}
      [] pc = "band_join" -> {TTile(k, k + 1), TTile(k + 1, k)}
      [] OTHER -> {}

\* C24: when the orchestrating thread reads or writes tile or pivot data in
\* line, no task emitted earlier that reads or writes the same data is
\* still outstanding.
C24_InlineAccessAlone ==
    [][pc' # pc =>
           \A i \in 1..Len(tasks) :
               (tasks[i].rd \cup tasks[i].wr) \cap InlineData = {}]_vars

\* column 1: both mirrors of T(1,1) and the offset of IPIV(2) are done
C24_Witness == pc = "swaps" /\ k = 1 /\ TTile(1, 1) \in full /\ pivDone = 2

(***************************************************************************)
(* The panel group.                                                        *)
(***************************************************************************)
\* the panel tasks not yet complete
PanelsInFlight == {i \in 1..Len(tasks) : tasks[i].kind = "panel"}

\* C25: for each panel factorization either every rank enters core_zgetrf
\* or none does, and at most one panel group exists at any time: the ranks
\* at work all belong to the one panel task of the current column, so no
\* rank waits at the barrier for a rank that was never started or that
\* belongs to another column's panel.
C25_PanelGroup ==
    /\ \/ \A r \in 1..NumRanks : ranks[r] = "idle"
       \/ \A r \in 1..NumRanks : ranks[r] # "idle"
    /\ Cardinality(PanelsInFlight) <= 1
    /\ (\E r \in 1..NumRanks : ranks[r] # "idle") =>
           \E i \in PanelsInFlight : tasks[i].st = "wait" /\ tasks[i].col = k
    /\ (\E r \in 1..NumRanks : ranks[r] = "factored") =>
           \A r \in 1..NumRanks : ranks[r] \in {"factored", "done"}

\* the second panel group (column 1) has been created in full
C25_Witness == k = 1 /\ \A r \in 1..NumRanks : ranks[r] = "spawned"

(***************************************************************************)
(* SpecLive: Spec with progress.  The orchestrating thread keeps running   *)
(* and the runtime keeps executing the tasks that are ready, so a step     *)
(* that can be taken is eventually taken.                                  *)
(***************************************************************************)
SpecLive == Init /\ [][Next]_vars /\ WF_vars(Next)

\* the routine has returned from the column loop with nothing outstanding
Drained == pc = "done" /\ k = mt /\ tasks = <<>>

PivOf(rs) == {x \in rs : x[1] = "ipiv"}

\* C27: the pivot range the panel task declares as its output is the pivot
\* block it writes, IPIV(k+1), and that same block is what the row-swap
\* tasks declare as their input.
C27_PivotRangeDeclared ==
    \A i \in 1..Len(tasks) :
        /\ tasks[i].kind = "panel" =>
               /\ PivOf(tasks[i].wr) \subseteq PivOf(tasks[i].dout)
               /\ PivOf(tasks[i].dout) = {PivBlock(tasks[i].col + 1)}
        /\ tasks[i].kind = "laswp" =>
               PivOf(tasks[i].din) = {PivBlock(tasks[i].col + 1)}

(***************************************************************************)
(* The slot count of the two reductions.                                   *)
(***************************************************************************)
\* C28: whenever terms are assigned to reduction slots (diagonal assembly
\* with k >= 2, workspace-parallel column update with k >= 1) the slot count
\* num, the modulus of the round-robin assignment, is at least 1, for every
\* tot >= 1 and every mt, k and max_threads.
C28_SlotCountPositive ==
    /\ (stage = "diag" /\ k >= 2) => DiagNum(tot, k) >= 1
    /\ (stage = "col" /\ k >= 1 /\ UseWorkspace(mt, k, max_threads)) =>
           ColNum(tot, mt, k) >= 1

(***************************************************************************)
(* The additions of one tournament round.                                  *)
(***************************************************************************)
\* two brackets belong to the same round when their contenders are the same
\* distance skip/2 apart (skip doubles from round to round)
SameRound(p, q) == p[2] - p[1] = q[2] - q[1]

\* C29: within one tournament round no slot takes part in more than one
\* pairwise addition, as source or as destination, and in the column update
\* the slots of different tile-rows are never shared; every slot named lies
\* in the reduction zone.
C29_RoundsDisjoint ==
    LET P == IF stage = "diag" THEN DiagNum(tot, k) ELSE ColNum(tot, mt, k)
        rows == IF stage = "diag" THEN 1 ELSE mt - 1 - k
        sched == TourSchedule(P)
        slots(r, p) == {(r - 1) * P + p[1], (r - 1) * P + p[2]}
        active == \/ stage = "diag" /\ k >= 2
                  \/ stage = "col" /\ UseWorkspace(mt, k, max_threads) /\ P >= 1
    IN active =>
           \A i, j \in 1..Len(sched), r1, r2 \in 1..rows :
               /\ sched[i][1] # sched[i][2]
               /\ slots(r1, sched[i]) \subseteq 0..(tot - 1)
               /\ (SameRound(sched[i], sched[j]) /\ <<i, r1>> # <<j, r2>>) =>
                      slots(r1, sched[i]) \cap slots(r2, sched[j]) = {}
               /\ r1 # r2 => slots(r1, sched[i]) \cap slots(r2, sched[j]) = {}

\* a column update over two tile-rows with three slots each, tournament done
C29_Witness ==
    /\ stage = "col"
    /\ rpc = "done"
    /\ UseWorkspace(mt, k, max_threads)
    /\ mt - 1 - k = 2
    /\ ColNum(tot, mt, k) = 3

(***************************************************************************)
(* Band finalization.                                                      *)
(***************************************************************************)
\* the copy of the upper triangle of L(c+1,c+1) into T(c+1,c) is still in
\* the pool
CopyOutstanding(c) ==
    \E j \in 1..Len(tasks) :
        /\ tasks[j].kind = "lacpy"
        /\ tasks[j].col = c
        /\ tasks[j].wr = {TTile(c + 1, c)}

\* C30: in the band finalization of column k (k+1 < nt) the upper triangle
\* of L(k+1,k+1) is copied into T(k+1,k) before it is reset, the triangular
\* solve is emitted only when k > 0 and runs after the copy, and the mirror
\* T(k,k+1) is written once, after those tasks are complete and before any
\* task of column k+1 is emitted.
C30_BandOrder ==
    uplo = "Lower" =>
        /\ \A i \in 1..Len(tasks) :
               /\ (tasks[i].kind = "laset" /\ tasks[i].st # "pending") =>
                      ~CopyOutstanding(tasks[i].col)
               /\ tasks[i].kind = "trsm" =>
                      /\ tasks[i].col > 0
                      /\ tasks[i].st # "pending" => ~CopyOutstanding(tasks[i].col)
               /\ tasks[i].col >= 1 =>
                      ver[TTile(tasks[i].col - 1, tasks[i].col)] = 1
               /\ tasks[i].kind \in {"laset", "trsm"} =>
                      ver[TTile(tasks[i].col, tasks[i].col + 1)] = 0
        /\ \A j \in 0..(mt - 2) :
               ver[TTile(j, j + 1)] = IF j < k THEN 1 ELSE 0
        /\ (pc = "offdiag" /\ k >= 1) => tasks = <<>>

\* column 1 of three: the triangular solve with L(1,1) is running
C30_Witness ==
    /\ uplo = "Lower"
    /\ k = 1
    /\ \E i \in 1..Len(tasks) : tasks[i].kind = "trsm" /\ tasks[i].st = "run"

(***************************************************************************)
(* The pivot vector on completion.                                         *)
(***************************************************************************)
\* C31: on successful completion of the Lower path every entry ipiv[i],
\* 0 <= i < n, the first block of mb rows included, has been assigned by the
\* factorization and holds a 1-based global row index in i+1..n.
C31_AllPivotsAssigned ==
    FinishedOK =>
        \A i \in 0..(Am - 1) :
            /\ ipiv[i] # ipiv0[i]
            /\ i + 1 <= ipiv[i]
            /\ ipiv[i] <= Am

\* C31 as the code has it: the panel of column k writes IPIV(k+1), so the
\* first block ipiv[0..mb-1] is never written and keeps the caller's
\* values; on successful completion every entry ipiv[i], mb <= i < n, has
\* been assigned and is the panel's 1-based local pivot, at least the
\* entry's own local row and at most the panel's row count, plus the
\* panel's global row origin (i div mb)*mb: a 1-based global row in i+1..n.
C31_PivotsFromBlockOne ==
    /\ \A i \in 0..(imin(MB, Am) - 1) : ipiv[i] = ipiv0[i]
    /\ FinishedOK =>
           \A i \in MB..(Am - 1) :
               LET origin == (i \div MB) * MB
                   local == ipiv[i] - origin
               IN /\ ipiv[i] # ipiv0[i]
                  /\ i - origin + 1 <= local
                  /\ local <= Am - origin
                  /\ i + 1 <= ipiv[i]
                  /\ ipiv[i] <= Am

\* three tile-rows, the last one partial, and the last pivot of block 1 is
\* the last row of the matrix
C31_Witness ==
    FinishedOK /\ mt = 3 /\ Am = 5 /\ ipiv[2 * MB - 1] = Am

(***************************************************************************)
(* Tile coordinates.                                                       *)
(***************************************************************************)
\* the tile lies inside its descriptor: A in the lower triangle of an
\* mt-by-mt tile matrix, T in the mt-by-mt tile grid, W below W.mt =
\* 3*A.mt + tot, a pivot block among the mt blocks of ipiv
InsideLower(x) ==
    CASE x[1] = "A" -> 0 <= x[3] /\ x[3] <= x[2] /\ x[2] < mt
      [] x[1] = "T" -> 0 <= x[2] /\ x[2] < mt /\ 0 <= x[3] /\ x[3] < mt
      [] x[1] = "W" -> 0 <= x[2] /\ x[2] < 3 * mt + tot
      [] OTHER -> 0 <= x[2] /\ x[2] < mt

\* every tile the task names
TilesOf(t) == t.rd \cup t.wr \cup t.din \cup t.dout

\* C32: every tile coordinate the Lower path passes to tile addressing lies
\* inside the addressed descriptor, for every mt >= 1 and tot >= 1: A tiles
\* satisfy 0 <= col <= row < mt and every workspace tile index is below
\* W.mt (every reduction-slot index below tot).  The tasks of the column
\* update are examined as the orchestrator is about to create them.
C32_TilesInside ==
    uplo = "Lower" =>
        /\ \A i \in 1..Len(tasks) : \A x \in TilesOf(tasks[i]) : InsideLower(x)
        /\ (pc = "colupd") =>
               \A i \in 1..Len(ColTasks(k)) :
                   \A x \in TilesOf(ColTasks(k)[i]) : InsideLower(x)

(***************************************************************************)
(* The PlasmaUpper path.                                                   *)
(***************************************************************************)
\* t is one of the four Cholesky-style operations of iteration c = t.col
CholeskyOp(t) ==
    LET c == t.col
    IN \/ t.kind = "potrf" /\ t.rd = {ATile(c, c)} /\ t.wr = {ATile(c, c)}
       \/ /\ t.kind = "trsm"
          /\ \E m \in (c + 1)..(mt - 1) :
                 t.rd = {ATile(c, c), ATile(c, m)} /\ t.wr = {ATile(c, m)}
       \/ /\ t.kind = "herk"
          /\ \E m \in (c + 1)..(mt - 1) :
                 t.rd = {ATile(c, m), ATile(m, m)} /\ t.wr = {ATile(m, m)}
       \/ /\ t.kind = "gemm"
          /\ \E m \in (c + 1)..(mt - 1), n \in (c + 1)..(mt - 1) :
                 /\ n < m
                 /\ t.rd = {ATile(c, n), ATile(c, m), ATile(n, m)}
                 /\ t.wr = {ATile(n, m)}

\* C33: with uplo = PlasmaUpper the routine emits only Cholesky-style tile
\* operations on A (potrf of A(k,k), trsm on A(k,m), herk on A(m,m), gemm on
\* A(n,m), k < n < m) and never reads or writes T, the pivot vector or the
\* workspace.
C33_UpperIsCholesky ==
    uplo = "Upper" =>
        /\ \A i \in 1..Len(tasks) :
               CholeskyOp(tasks[i]) /\ TilesOf(tasks[i]) \subseteq
                   {ATile(a, b) : a \in 0..(mt - 1), b \in 0..(mt - 1)}
        /\ \A x \in AllTiles : x[1] # "A" => ver[x] = 0
        /\ ipiv = ipiv0
        /\ pivDone = 0
        /\ \A r \in 1..NumRanks : ranks[r] = "idle"
        /\ joins = <<>>

\* three tile-columns done: A(1,2) was written by the gemm of iteration 0
\* and the trsm of iteration 1
C33_Witness ==
    /\ uplo = "Upper"
    /\ mt = 3
    /\ pc = "done"
    /\ tasks = <<>>
    /\ seqStatus = PlasmaSuccess
    /\ ver[ATile(1, 2)] = 2

(***************************************************************************)
(* The blocking drivers: resources and argument errors.                    *)
(***************************************************************************)
\* C34: on every return path of PLASMA_zposv and of PLASMA_ztrmm, every
\* tile descriptor and every sequence created during the call has been
\* destroyed before the routine returns.
C34_NothingLeftBehind ==
    (routine \in Blocking /\ dpc = "returned") => made = {}

\* the positions, in the parameter list (side, uplo, transA, diag, m, n,
\* alpha, A, lda, B, ldb), of the illegal arguments of PLASMA_ztrmm
ZtrmmIllegal ==
    {i \in {1, 2, 3, 4, 5, 6, 9, 11} :
        \/ i = 1 /\ arg.side \notin {"PlasmaLeft", "PlasmaRight"}
        \/ i = 2 /\ arg.uplo \notin {"PlasmaUpper", "PlasmaLower"}
        \/ i = 3 /\ ~arg.transOk
        \/ i = 4 /\ ~arg.diagOk
        \/ i = 5 /\ arg.m < 0
        \/ i = 6 /\ arg.n < 0
        \/ i = 9 /\ arg.lda <
                       imax(1, IF arg.side = "PlasmaLeft" THEN arg.m ELSE arg.n)
        \/ i = 11 /\ arg.ldb < imax(1, arg.m)}

\* C35: with an initialized context and some illegal argument, PLASMA_ztrmm
\* returns -i for the least position i of an illegal argument in its
\* parameter list, having created no descriptor and no sequence and with A
\* and B untouched.
C35_FirstIllegalPosition ==
    (/\ routine = "PLASMA_ztrmm"
     /\ arg.ctx
     /\ ZtrmmIllegal # {}
     /\ dpc # "tentry") =>
        /\ dpc = "returned"
        /\ \E i \in ZtrmmIllegal :
               /\ ret = -i
               /\ \A j \in ZtrmmIllegal : i <= j
        /\ called = <<>>
        /\ made = {}
        /\ userA = A0
        /\ userB = B0

(***************************************************************************)
(* SpecTree: the operation-tree planners of src/control/plasma_rh_tree.c.  *)
(* A planner takes mt and nt and fills a list of operations               *)
(* (kernel, column, row, pivot row); the list is allocated for nops        *)
(* entries and iops counts the insertions.  One step is one pass of the    *)
(* planner's outer loop (one column k for the flat and the PLASMA-tree     *)
(* planner, one column j of a sweep for the greedy planner).               *)
(***************************************************************************)
TreeMaxMt == 9
TreeMaxNt == 3

PlasmaGEKernel == "GE"
PlasmaTSKernel == "TS"
PlasmaTTKernel == "TT"

\* plasma_rh_tree_operation_insert: the entry written at position iops
Operation(kernel, col, row, piv) ==
    [kernel |-> kernel, col |-> col, row |-> row, piv |-> piv]

\* int minnt = imin(mt, nt)
minnt == imin(mt, nt)

\* mt*minnt - (minnt+1)*minnt/2: tiles on the diagonal and above stay
num_anihilated_tiles == mt * minnt - ((minnt + 1) * minnt) \div 2

InitTree ==
    /\ mt \in 1..TreeMaxMt
    /\ nt \in 1..TreeMaxNt
    /\ planner \in {"flat", "plasmatree", "greedy"}
    /\ tot = 1 /\ max_threads = 1 /\ k = 0
    /\ tpc = "entry"
    /\ nops = 0
    /\ iops = 0
    /\ operations = <<>>
    /\ NT = <<>>
    /\ NZ = <<>>
    /\ tj = 0
    /\ RedIdle
    /\ FactIdle
    /\ DrvIdle

\* what no step of a planner changes
TreeFixed == <<redVars, factVars, drvVars, mt, tot, max_threads, planner, nt>>

\* the flat and the PLASMA-tree planner have no column counters
NoCounters == UNCHANGED <<NT, NZ, tj>>

(* ------------------------------ flat ---------------------------------- *)

\* lines 247-255: the number of operations, one GE per column
FlatNops == minnt + num_anihilated_tiles

\* lines 274-281: TSQRT(m, k, k) for m = m0 .. mt-1
RECURSIVE FlatTS(_, _)
FlatTS(kk, m) ==
    IF m < mt
    THEN <<Operation(PlasmaTSKernel, kk, m, kk)>> \o FlatTS(kk, m + 1)
    ELSE <<>>

\* lines 267-281: the body of the k loop
FlatColumnOps(kk) ==
    <<Operation(PlasmaGEKernel, kk, kk, -1)>> \o FlatTS(kk, kk + 1)

\* lines 244-264: sizes, allocation, iops = 0
FlatBegin ==
    /\ planner = "flat"
    /\ tpc = "entry"
    /\ nops' = FlatNops
    /\ iops' = 0
    /\ operations' = <<>>
    /\ k' = 0
    /\ tpc' = "columns"
    /\ NoCounters
    /\ UNCHANGED TreeFixed

\* lines 265-282: one pass of the k loop
FlatColumn ==
    /\ planner = "flat"
    /\ tpc = "columns"
    /\ k < minnt
    /\ operations' = operations \o FlatColumnOps(k)
    /\ iops' = iops + Len(FlatColumnOps(k))
    /\ k' = k + 1
    /\ NoCounters
    /\ UNCHANGED <<TreeFixed, tpc, nops>>

\* lines 284-289: the loop is over, *noperations = iops
FlatReturn ==
    /\ planner = "flat"
    /\ tpc = "columns"
    /\ ~(k < minnt)
    /\ tpc' = "done"
    /\ NoCounters
    /\ UNCHANGED <<TreeFixed, k, nops, iops, operations>>

(* --------------------------- PLASMA-tree ------------------------------ *)

\* line 170
BS == 4

\* lines 175-181: an upper bound on the number of operations
TreeNops == ((mt \div BS) + 1) * minnt + num_anihilated_tiles

\* lines 201-208: TSQRT(m, M, k) for m = m0 .. imin(M+BS, mt)-1
RECURSIVE BlockTS(_, _, _)
BlockTS(kk, M, m) ==
    IF m < imin(M + BS, mt)
    THEN <<Operation(PlasmaTSKernel, kk, m, M)>> \o BlockTS(kk, M, m + 1)
    ELSE <<>>

\* lines 194-209: the blocks of column k, from the block that begins at M
RECURSIVE Blocks(_, _)
Blocks(kk, M) ==
    IF M < mt
    THEN <<Operation(PlasmaGEKernel, kk, M, -1)>> \o BlockTS(kk, M, M + 1)
         \o Blocks(kk, M + BS)
    ELSE <<>>

PairStrideSingle(rd) == rd

\* line 211: M += 2*rd
PairStride(rd) == 2 * rd

\* lines 211-218: TTQRT(M+rd, M, k) at distance rd, from M
RECURSIVE Pairs(_, _, _)
Pairs(kk, rd, M) ==
    IF M + rd < mt
    THEN <<Operation(PlasmaTTKernel, kk, M + rd, M)>>
         \o Pairs(kk, rd, M + PairStride(rd))
    ELSE <<>>

\* lines 210-219: the binary tree on the block heads, from distance rd
RECURSIVE Levels(_, _)
Levels(kk, rd) ==
    IF rd < mt - kk
    THEN Pairs(kk, rd, kk) \o Levels(kk, rd * 2)
    ELSE <<>>

\* lines 194-219: the body of the k loop
TreeColumnOps(kk) == Blocks(kk, kk) \o Levels(kk, BS)

\* lines 172-192
TreeBegin ==
    /\ planner = "plasmatree"
    /\ tpc = "entry"
    /\ nops' = TreeNops
    /\ iops' = 0
    /\ operations' = <<>>
    /\ k' = 0
    /\ tpc' = "columns"
    /\ NoCounters
    /\ UNCHANGED TreeFixed

\* lines 193-220: one pass of the k loop
TreeColumn ==
    /\ planner = "plasmatree"
    /\ tpc = "columns"
    /\ k < minnt
    /\ operations' = operations \o TreeColumnOps(k)
    /\ iops' = iops + Len(TreeColumnOps(k))
    /\ k' = k + 1
    /\ NoCounters
    /\ UNCHANGED <<TreeFixed, tpc, nops>>

\* lines 222-228
TreeReturn ==
    /\ planner = "plasmatree"
    /\ tpc = "columns"
    /\ ~(k < minnt)
    /\ tpc' = "done"
    /\ NoCounters
    /\ UNCHANGED <<TreeFixed, k, nops, iops, operations>>

(* ------------------------------ greedy -------------------------------- *)

\* lines 56-62: the number of operations, every tile on or below the
\* diagonal triangularized
GreedyNops == (mt * minnt - ((minnt - 1) * minnt) \div 2) + num_anihilated_tiles

\* lines 92-100: GEQRT(k, 0) for k = k0 down to 0
RECURSIVE FirstColumnGE(_)
FirstColumnGE(k0) ==
    IF k0 >= 0
    THEN <<Operation(PlasmaGEKernel, 0, k0, -1)>> \o FirstColumnGE(k0 - 1)
    ELSE <<>>

\* lines 106-117: GEQRT(mt-k-1, j) for k = k0 .. nTnew-1
RECURSIVE LaterColumnGE(_, _, _)
LaterColumnGE(j, k0, nTnew) ==
    IF k0 < nTnew
    THEN <<Operation(PlasmaGEKernel, j, mt - k0 - 1, -1)>>
         \o LaterColumnGE(j, k0 + 1, nTnew)
    ELSE <<>>

\* lines 88-118: the tiles column j triangularizes in this sweep
GreedyGE(j) ==
    IF j = 0
    THEN (IF mt - NT[j] > 0 THEN FirstColumnGE(mt - 1) ELSE <<>>)
    ELSE LaterColumnGE(j, NT[j], NZ[j - 1])

\* lines 90, 105: nTnew
GreedyNTnew(j) == IF j = 0 THEN NT[j] + (mt - NT[j]) ELSE NZ[j - 1]

GreedyBatchNone(j) == 0

\* line 121: int batch = (NT[j] - NZ[j]) / 2
GreedyBatch(j) == (NT[j] - NZ[j]) \div 2

\* lines 123-136: TTQRT(mt-kk-1, mt-kk-1-batch, j) for kk = kk0 .. nZnew-1
RECURSIVE GreedyTT(_, _, _, _)
GreedyTT(j, kk0, nZnew, batch) ==
    IF kk0 < nZnew
    THEN <<Operation(PlasmaTTKernel, j, mt - kk0 - 1, mt - kk0 - 1 - batch)>>
         \o GreedyTT(j, kk0 + 1, nZnew, batch)
    ELSE <<>>

\* lines 86-141: the body of the j loop
GreedyColumnOps(j) ==
    GreedyGE(j) \o GreedyTT(j, NZ[j], NZ[j] + GreedyBatch(j), GreedyBatch(j))

\* lines 83-84: the condition of the while loop
LastColumnUnfinished ==
    \/ NT[minnt - 1] < mt - minnt + 1
    \/ NZ[minnt - 1] < mt - minnt

\* lines 51-81
GreedyBegin ==
    /\ planner = "greedy"
    /\ tpc = "entry"
    /\ nops' = GreedyNops
    /\ iops' = 0
    /\ operations' = <<>>
    /\ NT' = [j \in 0..(minnt - 1) |-> 0]
    /\ NZ' = [j \in 0..(minnt - 1) |-> 0]
    /\ tpc' = "while"
    /\ UNCHANGED <<TreeFixed, k, tj>>

\* lines 83-85: the test of the while loop; a sweep begins at the last column
GreedyWhile ==
    /\ planner = "greedy"
    /\ tpc = "while"
    /\ IF LastColumnUnfinished
       THEN tpc' = "sweep" /\ tj' = minnt - 1
       ELSE tpc' = "check" /\ tj' = tj
    /\ UNCHANGED <<TreeFixed, k, nops, iops, operations, NT, NZ>>

\* lines 85-142: one pass of the j loop
GreedyColumn ==
    /\ planner = "greedy"
    /\ tpc = "sweep"
    /\ operations' = operations \o GreedyColumnOps(tj)
    /\ iops' = iops + Len(GreedyColumnOps(tj))
    /\ NT' = [NT EXCEPT ![tj] = GreedyNTnew(tj)]
    /\ NZ' = [NZ EXCEPT ![tj] = NZ[tj] + GreedyBatch(tj)]
    /\ tj' = tj - 1
    /\ tpc' = IF tj - 1 >= 0 THEN "sweep" ELSE "while"
    /\ UNCHANGED <<TreeFixed, k, nops>>

\* lines 145-154
GreedyReturn ==
    /\ planner = "greedy"
    /\ tpc = "check"
    /\ tpc' = "done"
    /\ UNCHANGED <<TreeFixed, k, nops, iops, operations, NT, NZ, tj>>

NextTree ==
    \/ FlatBegin
    \/ FlatColumn
    \/ FlatReturn
    \/ TreeBegin
    \/ TreeColumn
    \/ TreeReturn
    \/ GreedyBegin
    \/ GreedyWhile
    \/ GreedyColumn
    \/ GreedyReturn

SpecTree == InitTree /\ [][NextTree]_vars

\* a planner is sequential code: it takes its next step
SpecTreeLive == InitTree /\ [][NextTree]_vars /\ WF_vars(NextTree)

(***************************************************************************)
(* The operation lists of the planners.                                    *)
(***************************************************************************)

\* entry i of the list annihilates a tile
Annihilates(i) == operations[i].kernel \in {PlasmaTSKernel, PlasmaTTKernel}

\* entry i of the list annihilates tile (m, c)
AnnihilatesTile(i, m, c) ==
    /\ Annihilates(i)
    /\ operations[i].row = m
    /\ operations[i].col = c

\* entry g triangularizes tile (m, c)
Triangularizes(g, m, c) ==
    /\ operations[g].kernel = PlasmaGEKernel
    /\ operations[g].row = m
    /\ operations[g].col = c

\* C36: in the list of each planner, at every point of its construction, an
\* annihilating operation (TS or TT) on tile (m,c) has m > c, a pivot row p
\* with c <= p < m whose tile (p,c) an earlier GE operation triangularized and
\* no earlier operation annihilated, and no other operation annihilates
\* (m,c); when the planner returns, every tile (m,c) with c < min(mt,nt) and
\* c < m < mt is annihilated by one operation of the list.
C36_EveryTileAnnihilatedOnce ==
    planner # "none" =>
        /\ \A i \in 1..Len(operations) : Annihilates(i) =>
              LET m == operations[i].row
                  c == operations[i].col
                  p == operations[i].piv
              IN  /\ c < m /\ m < mt /\ 0 <= c /\ c < minnt
                  /\ c <= p /\ p < m
                  /\ \E g \in 1..(i - 1) : Triangularizes(g, p, c)
                  /\ \A h \in 1..(i - 1) : ~AnnihilatesTile(h, p, c)
                  /\ \A h \in 1..Len(operations) :
                        AnnihilatesTile(h, m, c) => h = i
        /\ tpc = "done" =>
              \A c \in 0..(minnt - 1) : \A m \in (c + 1)..(mt - 1) :
                  \E i \in 1..Len(operations) : AnnihilatesTile(i, m, c)

\* the PLASMA-tree planner has returned a list for mt = 9 in which row 8 of
\* column 0, the head of the third block, is annihilated against row 0 after
\* row 4 was
C36_Witness ==
    /\ planner = "plasmatree"
    /\ tpc = "done"
    /\ mt = 2 * BS + 1
    /\ nt >= 2
    /\ \E i, h \in 1..Len(operations) :
          /\ h < i
          /\ operations[h] = Operation(PlasmaTTKernel, 0, BS, 0)
          /\ operations[i] = Operation(PlasmaTTKernel, 0, 2 * BS, 0)

\* the planner has returned
PlannerDone == tpc = "done"

\* C37: every planner returns, and at every point the number of operations
\* inserted is at most the number of entries allocated; at the return the two
\* are equal for the flat and the greedy planner.
C37_TerminatesWithinAllocation ==
    /\ [](planner # "none" /\ tpc # "entry" =>
             /\ iops = Len(operations)
             /\ iops <= nops
             /\ (PlannerDone /\ planner \in {"flat", "greedy"} => iops = nops))
    /\ <>PlannerDone

\* the greedy planner has returned for mt = 9, nt = 3 after several sweeps,
\* with the list exactly full
C37_Witness ==
    /\ planner = "greedy"
    /\ PlannerDone
    /\ mt = 2 * BS + 1
    /\ nt = 3
    /\ iops = nops
    /\ iops = 45
    /\ \E i \in 1..Len(operations) : operations[i].kernel = PlasmaTTKernel
                                     /\ operations[i].col = nt - 1
====
